---- MODULE Spec2Model ----
(***************************************************************************)
(* FSH ("Folder Shell") server: the acceptor and its session registry, the *)
(* four-phase handshake of a connection, the message loop of a session,    *)
(* the sandboxed shell (path validator, command policy, builtins,          *)
(* subprocess output streaming).                                           *)
(*                                                                         *)
(* The specifications of the module:                                       *)
(*   Spec       the server with one connection and every frame a client    *)
(*              can put on the wire: handshake handlers, registry,         *)
(*              message loop, close_session and stop;                      *)
(*   SpecServer the server with concurrent connections of well-behaved     *)
(*              clients; FairSpecServer adds weak fairness on the steps    *)
(*              the runtime schedules;                                     *)
(*   SpecCmd    one session in Ready executing commands: handle_command,   *)
(*              execute_command, the output, wait and forwarding tasks;    *)
(*   SpecSession one session reading several commands while              *)
(*              Session::close may be called; FairSpecSession adds weak    *)
(*              fairness on the tasks of the runtime;                      *)
(*   SpecShell  the path validator and the cd builtin over a small file    *)
(*              system with symlinks;                                      *)
(*   SpecAuth, SpecConfig  the token table of AuthManager and the folder   *)
(*              list of Config under their operations.                     *)
(***************************************************************************)
EXTENDS Integers, Sequences, FiniteSets, TLC

(***************************************************************************)
(* Bounds of the model.                                                    *)
(***************************************************************************)
\* connections the clients open over the whole run
NumConns == 2
\* inbound frames one session reads in Ready
MaxReady == 1
\* consecutive read timeouts followed for one session
MaxIdle == 2
\* ServerConfig.max_connections of the run (the default is 10)
max_connections == 1
\* SecurityConfig.max_failed_attempts of the run (the default is 3)
max_failed_attempts == 2
\* Command frames one session reads
MaxCmds == 2
\* lines a child writes to each of stdout and stderr
MaxLines == 1
\* read timeouts followed for the session that executes commands
MaxCmdPings == 1

(***************************************************************************)
(* Program constants.                                                      *)
(***************************************************************************)
FSH_VERSION == "1.0"
FSH_MAGIC == <<70, 83, 72, 1>>
\* 10 * 1024 * 1024, the cap of FshCodec::read_message
MAX_MESSAGE_LEN == 10485760

Conns == 1..NumConns

(***************************************************************************)
(* Messages.  t is the variant of FshMessage; a and b are the fields the   *)
(* server looks at (Connect: a = version; Authenticate: a = auth_type,     *)
(* b = credentials["token"], "<none>" when absent; FolderBind: a =         *)
(* target_folder; Error: a = error_type; *Response/FolderBound: a = "ok"   *)
(* or "fail"; Command, FileList, FileRead, FileWrite: b = session_id, "own" *)
(* for the id of the session that owns the stream, "other" for any other). *)
(***************************************************************************)
Msg(t, a, b) == [t |-> t, a |-> a, b |-> b]

ClientMessages ==
    { Msg("Connect", FSH_VERSION, ""), Msg("Connect", "0.9", ""),
      Msg("Authenticate", "token", "t1"), Msg("Authenticate", "token", ""),
      Msg("Authenticate", "token", "default"),
      Msg("Authenticate", "token", "<none>"), Msg("Authenticate", "password", "pw"),
      Msg("FolderBind", "demo", ""), Msg("FolderBind", "gone", ""),
      Msg("FolderBind", "nope", ""),
      Msg("Command", "", "own"), Msg("FileList", "", "own"), Msg("FileRead", "", "own"),
      Msg("FileWrite", "", "own"), Msg("Command", "", "other"),
      Msg("FileList", "", "other"), Msg("Ping", "", ""), Msg("Pong", "", ""),
      Msg("Disconnect", "", "") }

(***************************************************************************)
(* What a client puts on the wire for one frame: the four magic bytes, the *)
(* LEN field and the message the payload deserializes to; or it closes the *)
(* stream (EOF).                                                           *)
(***************************************************************************)
Wire(magic, len, msg) == [magic |-> magic, len |-> len, msg |-> msg, eof |-> FALSE]

EOF == [magic |-> <<>>, len |-> 0, msg |-> Msg("", "", ""), eof |-> TRUE]

WireInputs ==
    { Wire(FSH_MAGIC, 64, m) : m \in ClientMessages }
      \cup { Wire(<<0, 0, 0, 0>>, 64, Msg("Connect", FSH_VERSION, "")),
             Wire(FSH_MAGIC, MAX_MESSAGE_LEN + 1, Msg("Connect", FSH_VERSION, "")),
             EOF }

\* FshCodec::read_message: Ok(message) or the error it returns
read_message(w) ==
    IF w.eof THEN [ok |-> FALSE, err |-> "NetworkError", what |-> "Failed to read magic", msg |-> w.msg]
    ELSE IF w.magic # FSH_MAGIC
    THEN [ok |-> FALSE, err |-> "ProtocolError", what |-> "Invalid magic bytes", msg |-> w.msg]
    ELSE IF w.len > MAX_MESSAGE_LEN
    THEN [ok |-> FALSE, err |-> "ProtocolError", what |-> "Message too large", msg |-> w.msg]
    ELSE [ok |-> TRUE, err |-> "", what |-> "", msg |-> w.msg]

(***************************************************************************)
(* Configuration (immutable after load).                                   *)
(***************************************************************************)
\* names of the configured folders; "gone" no longer passes FolderConfig::validate
ConfigFolders == {"demo", "gone"}

FolderValidates(name) == name = "demo"

AllPermissions == {"Read", "Write", "Execute"}

\* Option<Vec<String>>
None == [some |-> FALSE, cmds |-> {}]

Some(cmds) == [some |-> TRUE, cmds |-> cmds]

\* FolderConfig::default_system_aware_commands (of its 18 entries, those the
\* commands of the runs can contain)
default_system_aware_commands == {"git", "go", "npm"}

\* the configurations of the run: an authenticated server with a read-write-execute
\* folder, an open server with a readonly folder, an open server with an
\* execute-only folder
Configs ==
    { [require_authentication |-> TRUE, permissions |-> AllPermissions, readonly |-> FALSE,
       allowed_commands |-> {}, blocked_commands |-> {"su", "sudo", "dd"},
       system_aware_commands |-> Some(default_system_aware_commands),
       environment_vars |-> {<<"APP_ENV", "dev">>}],
      [require_authentication |-> FALSE, permissions |-> {"Read"}, readonly |-> TRUE,
       allowed_commands |-> {}, blocked_commands |-> {"su", "sudo", "dd"},
       system_aware_commands |-> Some(default_system_aware_commands),
       environment_vars |-> {<<"APP_ENV", "dev">>}],
      [require_authentication |-> FALSE, permissions |-> {"Execute"}, readonly |-> FALSE,
       allowed_commands |-> {}, blocked_commands |-> {"su", "sudo", "dd"},
       system_aware_commands |-> Some(default_system_aware_commands),
       environment_vars |-> {<<"APP_ENV", "dev">>}] }

\* the configurations of the runs of one session: the first of Configs, and a
\* folder with an allow-list
CmdConfigs ==
    Configs \cup
    { [require_authentication |-> TRUE, permissions |-> AllPermissions, readonly |-> FALSE,
       allowed_commands |-> {"ls", "cat", "cd", "pwd"}, blocked_commands |-> {},
       system_aware_commands |-> Some(default_system_aware_commands),
       environment_vars |-> {<<"APP_ENV", "dev">>}] }

VARIABLES
    \* ---- server (Spec) ----
    cfg,          \* the Config: require_authentication, permissions and readonly of the folder
    listener,     \* FshServer.listener is Some
    sessions,     \* FshServer.sessions: the registry (session ids are connection ids)
    phase,        \* per connection: where its handler task is
    attempts,     \* per connection: handle_authentication's attempts
    sent,         \* per connection: the frames the server wrote to the stream
    active,       \* per session: Session.active
    loop,         \* per session: where its message loop task is
    streamLock,   \* per session: who holds Session.stream's mutex
    closePc,      \* per session: where a Session::close call is
    stopPc,       \* where FshServer::stop is
    stopQueue,    \* sessions drained by stop and not yet closed
    nread,        \* per session: inbound frames read in Ready
    idle,         \* per session: consecutive read timeouts since the last inbound frame
    fault,        \* per connection: the last protocol error met and the phase it was met in
    \* ---- sandboxed shell (SpecShell, SpecCmd) ----
    shRoot,       \* SandboxConfig.root_path, as configured
    wd,           \* SandboxedShell.working_directory
    shLast,       \* the last call made on the shell and what it returned
    \* ---- one session executing commands (SpecCmd) ----
    platform,     \* the build target: "unix" or "windows" (cfg!(unix), cfg!(windows))
    rd,           \* where the session's reader (message_loop, handle_command) is
    ncmd,         \* Command frames received so far; the current command is ncmd
    task,         \* per command: its channels, child process and tasks
    stream,       \* the frames written to the session's stream
    spawned,      \* the subprocesses spawned: command number, program, arguments
    audit,        \* the security events emitted for the session
    \* ---- one FolderConfig being built and asked (SpecFolder) ----
    policy,       \* the last question put to the folder's policy and its answers
    \* ---- PathValidator::sanitize_output_path (SpecSanitize) ----
    san,          \* the validator's root string, the last line sanitized, the data emitted
    \* ---- FshCodec (SpecCodec) ----
    codec,        \* the last call made on FshCodec: its input and what it returned
    \* ---- MessageBuffer (SpecBuffer) ----
    mb,           \* the bytes of a stream, how many were fed, the buffer's fields, the messages taken
    \* ---- RateLimiter and AdaptiveRateLimiter (SpecRate) ----
    rl,           \* the clock, the limiters' maps, the last call and its answer
    \* ---- SecurityManager (SpecSecurity) ----
    sm,           \* the clock, failed_attempts, blocked_ips, the last call and its answer
    \* ---- AuthManager (SpecAuth) ----
    am,           \* the clock, AuthManager.tokens, the last call and its answer
    \* ---- Config (SpecConfig) ----
    cf            \* Config.folders and the result of the last call

srvVars == <<cfg, listener, sessions, phase, attempts, sent, active, loop,
             streamLock, closePc, stopPc, stopQueue, nread, idle, fault>>

shVars == <<shRoot, wd, shLast>>

cmdVars == <<platform, rd, ncmd, task, stream, spawned, audit>>

polVars == <<policy>>

sanVars == <<san>>

codecVars == <<codec>>

mbVars == <<mb>>

rlVars == <<rl>>

smVars == <<sm>>

amVars == <<am>>

cfVars == <<cf>>

libVars == <<sanVars, codecVars, mbVars, rlVars, smVars, amVars, cfVars>>

vars == <<srvVars, shVars, cmdVars, polVars, libVars>>

NoFault == [kind |-> "none", phase |-> "none"]

Fault(kind, ph) == [kind |-> kind, phase |-> ph]

SrvQuiet ==
    /\ listener = TRUE
    /\ sessions = {}
    /\ phase = [c \in Conns |-> "idle"]
    /\ attempts = [c \in Conns |-> 0]
    /\ sent = [c \in Conns |-> <<>>]
    /\ loop = [c \in Conns |-> "none"]
    /\ streamLock = [c \in Conns |-> "free"]
    /\ closePc = [c \in Conns |-> "none"]
    /\ stopPc = "idle"
    /\ stopQueue = {}
    /\ nread = [c \in Conns |-> 0]
    /\ idle = [c \in Conns |-> 0]
    /\ fault = [c \in Conns |-> NoFault]

SrvRest == SrvQuiet /\ active = [c \in Conns |-> FALSE]

SrvInit == cfg \in Configs /\ SrvRest

\* FshCodec::write_message on the stream of connection c
Write(c, frames) == sent' = [sent EXCEPT ![c] = @ \o frames]

(***************************************************************************)
(* FshServer::start: one iteration of the accept loop.  The limit is       *)
(* checked against the registry as it is now; the handler is spawned and   *)
(* inserts later.                                                          *)
(***************************************************************************)
Accept(c) ==
    /\ listener
    /\ stopPc = "idle"
    /\ phase[c] = "idle"
    /\ \A d \in Conns : d < c => phase[d] # "idle"
    /\ IF Cardinality(sessions) >= max_connections
       THEN phase' = [phase EXCEPT ![c] = "Rejected"]
       ELSE phase' = [phase EXCEPT ![c] = "Connect"]
    /\ UNCHANGED <<cfg, listener, sessions, attempts, sent, active, loop,
                   streamLock, closePc, stopPc, stopQueue, nread, idle, fault>>
    /\ UNCHANGED <<shVars, cmdVars, polVars, libVars>>

\* what made a handshake or a session end: the FshError kind and its cause
ReadFault(r, ph) ==
    IF r.err = "ProtocolError"
    THEN Fault(IF r.what = "Message too large" THEN "oversize" ELSE "bad_magic", ph)
    ELSE Fault("network", ph)

\* handle_connection with step 2 left out whatever the configuration says
AfterConnectSkipsAuthentication == "FolderBind"

\* Connection::handle_connection, step 2: the handler that follows a
\* successful handle_connect
AfterConnect == IF cfg.require_authentication THEN "Authenticate" ELSE "FolderBind"

\* Connection::handle_connect
HandleConnect(c, w) ==
    /\ phase[c] = "Connect"
    /\ LET r == read_message(w) IN
       IF ~r.ok
       THEN /\ phase' = [phase EXCEPT ![c] = "Failed"]
            /\ fault' = [fault EXCEPT ![c] = ReadFault(r, "Connect")]
            /\ UNCHANGED sent
       ELSE IF r.msg.t = "Connect"
       THEN IF r.msg.a # FSH_VERSION
            THEN /\ Write(c, <<Msg("ConnectResponse", "fail", "")>>)
                 /\ phase' = [phase EXCEPT ![c] = "Failed"]
                 /\ fault' = [fault EXCEPT ![c] = Fault("version", "Connect")]
            ELSE /\ Write(c, <<Msg("ConnectResponse", "ok", "")>>)
                 /\ phase' = [phase EXCEPT ![c] = AfterConnect]
                 /\ UNCHANGED fault
       ELSE /\ Write(c, <<Msg("Error", "protocol_error", "Expected Connect message")>>)
            /\ phase' = [phase EXCEPT ![c] = "Failed"]
            /\ fault' = [fault EXCEPT ![c] = Fault("wrong_message", "Connect")]
    /\ UNCHANGED <<cfg, listener, sessions, attempts, active, loop,
                   streamLock, closePc, stopPc, stopQueue, nread, idle>>
    /\ UNCHANGED <<shVars, cmdVars, polVars, libVars>>

(***************************************************************************)
(* security::AuthManager: the token registry.                              *)
(***************************************************************************)
\* AuthManager::hash_token: the hex SHA-256 digest, one digest per token
hash_token(token) == "sha256:" \o token

\* AuthManager.tokens after AuthManager::new: the default development token,
\* which never expires; revoke_token removes an entry
AuthTokens == { [token_hash |-> hash_token("default"), expired |-> FALSE] }

\* AuthManager::validate_token
AuthManager_validate_token(token) ==
    \E ti \in AuthTokens : ti.token_hash = hash_token(token) /\ ~ti.expired

\* Connection::validate_authentication
validate_authentication(m) ==
    IF m.a = "token"
    THEN m.b # "<none>" /\ m.b # ""
    ELSE FALSE

\* a handle_authentication that never gives up
AttemptsNeverExhausted(n) == FALSE

\* Connection::handle_authentication: if attempts >= max_attempts { return Err(..) }
AttemptsExhausted(n) == n >= max_failed_attempts

\* Connection::handle_authentication: one iteration of its loop
HandleAuthentication(c, w) ==
    /\ phase[c] = "Authenticate"
    /\ attempts[c] < max_failed_attempts
    /\ LET r == read_message(w) IN
       IF ~r.ok
       THEN /\ phase' = [phase EXCEPT ![c] = "Failed"]
            /\ fault' = [fault EXCEPT ![c] = ReadFault(r, "Authenticate")]
            /\ UNCHANGED <<sent, attempts>>
       ELSE IF r.msg.t = "Authenticate"
       THEN IF validate_authentication(r.msg)
            THEN /\ Write(c, <<Msg("AuthResponse", "ok", "")>>)
                 /\ phase' = [phase EXCEPT ![c] = "FolderBind"]
                 /\ UNCHANGED <<attempts, fault>>
            ELSE /\ attempts' = [attempts EXCEPT ![c] = @ + 1]
                 /\ Write(c, <<Msg("AuthResponse", "fail", "")>>)
                 /\ IF AttemptsExhausted(attempts[c] + 1)
                    THEN /\ phase' = [phase EXCEPT ![c] = "Failed"]
                         /\ fault' = [fault EXCEPT ![c] = Fault("auth", "Authenticate")]
                    ELSE UNCHANGED <<phase, fault>>
       ELSE /\ Write(c, <<Msg("Error", "protocol_error", "Expected Authenticate message")>>)
            /\ phase' = [phase EXCEPT ![c] = "Failed"]
            /\ fault' = [fault EXCEPT ![c] = Fault("wrong_message", "Authenticate")]
            /\ UNCHANGED attempts
    /\ UNCHANGED <<cfg, listener, sessions, active, loop,
                   streamLock, closePc, stopPc, stopQueue, nread, idle>>
    /\ UNCHANGED <<shVars, cmdVars, polVars, libVars>>

\* Connection::handle_folder_binding
HandleFolderBinding(c, w) ==
    /\ phase[c] = "FolderBind"
    /\ LET r == read_message(w) IN
       IF ~r.ok
       THEN /\ phase' = [phase EXCEPT ![c] = "Failed"]
            /\ fault' = [fault EXCEPT ![c] = ReadFault(r, "FolderBind")]
            /\ UNCHANGED sent
       ELSE IF r.msg.t = "FolderBind"
       THEN IF r.msg.a \in ConfigFolders /\ FolderValidates(r.msg.a)
            THEN /\ Write(c, <<Msg("FolderBound", "ok", "")>>)
                 /\ phase' = [phase EXCEPT ![c] = "CreateSession"]
                 /\ UNCHANGED fault
            ELSE /\ Write(c, <<Msg("FolderBound", "fail", "")>>)
                 /\ phase' = [phase EXCEPT ![c] = "Failed"]
                 /\ fault' = [fault EXCEPT ![c] = Fault("folder", "FolderBind")]
       ELSE /\ Write(c, <<Msg("Error", "protocol_error", "Expected FolderBind message")>>)
            /\ phase' = [phase EXCEPT ![c] = "Failed"]
            /\ fault' = [fault EXCEPT ![c] = Fault("wrong_message", "FolderBind")]
    /\ UNCHANGED <<cfg, listener, sessions, attempts, active, loop,
                   streamLock, closePc, stopPc, stopQueue, nread, idle>>
    /\ UNCHANGED <<shVars, cmdVars, polVars, libVars>>

\* Connection::handle: connection_timeout expires while the handshake awaits a frame
\* or the write of SessionReady
HandshakeTimeout(c) ==
    /\ phase[c] \in {"Connect", "Authenticate", "FolderBind", "CreateSession"}
    /\ phase' = [phase EXCEPT ![c] = "Failed"]
    /\ fault' = [fault EXCEPT ![c] = Fault("timeout", phase[c])]
    /\ UNCHANGED <<cfg, listener, sessions, attempts, sent, active, loop,
                   streamLock, closePc, stopPc, stopQueue, nread, idle>>
    /\ UNCHANGED <<shVars, cmdVars, polVars, libVars>>

\* Connection::create_session, Session::new: SessionReady is sent and the
\* message loop is spawned; the session is returned to handle_connection
CreateSession(c) ==
    /\ phase[c] = "CreateSession"
    /\ Write(c, <<Msg("SessionReady", "", "")>>)
    /\ active' = [active EXCEPT ![c] = TRUE]
    /\ loop' = [loop EXCEPT ![c] = "top"]
    /\ phase' = [phase EXCEPT ![c] = "Insert"]
    /\ UNCHANGED <<cfg, listener, sessions, attempts,
                   streamLock, closePc, stopPc, stopQueue, nread, idle, fault>>
    /\ UNCHANGED <<shVars, cmdVars, polVars, libVars>>

\* a handle_connection that stores a session on either arm of its match
HandleReturned(c) == phase[c] \in {"Insert", "Failed"}

\* FshServer::handle_connection: connection.handle().await matched Ok(session)
HandleReturnedSession(c) == phase[c] = "Insert"

\* FshServer::handle_connection, Ok(session): sessions.write().await.insert(..)
Insert(c) ==
    /\ HandleReturnedSession(c)
    /\ stopPc # "draining"
    /\ sessions' = sessions \cup {c}
    /\ phase' = [phase EXCEPT ![c] = "Done"]
    /\ UNCHANGED <<cfg, listener, attempts, sent, active, loop,
                   streamLock, closePc, stopPc, stopQueue, nread, idle, fault>>
    /\ UNCHANGED <<shVars, cmdVars, polVars, libVars>>

(***************************************************************************)
(* Session::message_loop.                                                  *)
(***************************************************************************)
\* while *active.read().await; after the loop: *active.write().await = false
LoopCheck(c) ==
    /\ loop[c] = "top"
    /\ IF active[c]
       THEN loop' = [loop EXCEPT ![c] = "lock"]
       ELSE loop' = [loop EXCEPT ![c] = "ended"]
    /\ UNCHANGED <<cfg, listener, sessions, phase, attempts, sent, active,
                   streamLock, closePc, stopPc, stopQueue, nread, idle, fault>>
    /\ UNCHANGED <<shVars, cmdVars, polVars, libVars>>

\* let mut stream = stream.lock().await: held until the read returns or times out
LoopLock(c) ==
    /\ loop[c] = "lock"
    /\ streamLock[c] = "free"
    /\ streamLock' = [streamLock EXCEPT ![c] = "loop"]
    /\ loop' = [loop EXCEPT ![c] = "reading"]
    /\ UNCHANGED <<cfg, listener, sessions, phase, attempts, sent, active,
                   closePc, stopPc, stopQueue, nread, idle, fault>>
    /\ UNCHANGED <<shVars, cmdVars, polVars, libVars>>

\* a can_read that grants Read to every folder
can_read_any == TRUE

\* a can_write that looks at the permission list alone
can_write_by_permission == "Write" \in cfg.permissions

\* FolderConfig::can_execute, can_read, can_write
can_execute == "Execute" \in cfg.permissions

can_read == "Read" \in cfg.permissions

can_write == ~cfg.readonly /\ "Write" \in cfg.permissions

\* the frames the handler of a Ready request writes itself; shellOk is whether
\* the shell call (execute_command, list_files) returned Ok
HandlerFrames(m, shellOk) ==
    CASE m.t = "Command" ->
           IF ~can_execute THEN <<Msg("Error", "permission_denied", "Execute permission denied")>>
           ELSE IF shellOk THEN <<Msg("CommandComplete", "", "")>>
           ELSE <<Msg("Error", "command_error", "Command execution failed")>>
      [] m.t = "FileList" ->
           IF shellOk THEN <<Msg("FileListResponse", "ok", "")>>
           ELSE <<Msg("FileListResponse", "fail", "Failed to list files")>>
      [] m.t = "FileRead" ->
           IF ~can_read THEN <<Msg("FileReadResponse", "fail", "Read permission denied")>>
           ELSE <<Msg("FileReadResponse", "fail", "File reading not yet implemented")>>
      [] m.t = "FileWrite" ->
           IF ~can_write THEN <<Msg("FileWriteResponse", "fail", "Write permission denied")>>
           ELSE <<Msg("FileWriteResponse", "fail", "File writing not yet implemented")>>
      [] m.t = "Ping" -> <<Msg("Pong", "", "")>>
      [] OTHER -> <<>>

\* the read returns Err: the loop breaks, nothing is written
LoopReadError(c, w) ==
    /\ loop[c] = "reading"
    /\ nread[c] < MaxReady
    /\ ~read_message(w).ok
    /\ loop' = [loop EXCEPT ![c] = "ended"]
    /\ active' = [active EXCEPT ![c] = FALSE]
    /\ streamLock' = [streamLock EXCEPT ![c] = "free"]
    /\ nread' = [nread EXCEPT ![c] = @ + 1]
    /\ fault' = [fault EXCEPT ![c] = ReadFault(read_message(w), "Ready")]
    /\ UNCHANGED <<cfg, listener, sessions, phase, attempts, sent,
                   closePc, stopPc, stopQueue, idle>>
    /\ UNCHANGED <<shVars, cmdVars, polVars, libVars>>

\* the read returns a message: the match of message_loop
LoopMessage(c, w, shellOk) ==
    /\ loop[c] = "reading"
    /\ nread[c] < MaxReady
    /\ read_message(w).ok
    /\ LET m == read_message(w).msg IN
       /\ Write(c, HandlerFrames(m, shellOk))
       /\ IF m.t = "Disconnect"
          THEN /\ loop' = [loop EXCEPT ![c] = "ended"]
               /\ active' = [active EXCEPT ![c] = FALSE]
          ELSE /\ loop' = [loop EXCEPT ![c] = "top"]
               /\ UNCHANGED active
       /\ fault' = [fault EXCEPT ![c] =
              IF m.t \in {"Connect", "Authenticate", "FolderBind"}
              THEN Fault("wrong_message", "Ready") ELSE @]
    /\ streamLock' = [streamLock EXCEPT ![c] = "free"]
    /\ nread' = [nread EXCEPT ![c] = @ + 1]
    /\ idle' = [idle EXCEPT ![c] = 0]
    /\ UNCHANGED <<cfg, listener, sessions, phase, attempts,
                   closePc, stopPc, stopQueue>>
    /\ UNCHANGED <<shVars, cmdVars, polVars, libVars>>

\* the 30 s read timeout elapses: a Ping is written and the loop continues
LoopTimeout(c) ==
    /\ loop[c] = "reading"
    /\ idle[c] < MaxIdle
    /\ Write(c, <<Msg("Ping", "", "")>>)
    /\ idle' = [idle EXCEPT ![c] = @ + 1]
    /\ loop' = [loop EXCEPT ![c] = "top"]
    /\ streamLock' = [streamLock EXCEPT ![c] = "free"]
    /\ UNCHANGED <<cfg, listener, sessions, phase, attempts, active,
                   closePc, stopPc, stopQueue, nread, fault>>
    /\ UNCHANGED <<shVars, cmdVars, polVars, libVars>>

(***************************************************************************)
(* Session::close, called by close_session and by stop.                    *)
(***************************************************************************)
\* FshServer::close_session: the entry is removed, then the session is closed
CloseSession(c) ==
    /\ c \in sessions
    /\ stopPc # "draining"
    /\ closePc[c] = "none"
    /\ sessions' = sessions \ {c}
    /\ closePc' = [closePc EXCEPT ![c] = "deactivate"]
    /\ UNCHANGED <<cfg, listener, phase, attempts, sent, active, loop,
                   streamLock, stopPc, stopQueue, nread, idle, fault>>
    /\ UNCHANGED <<shVars, cmdVars, polVars, libVars>>

\* *self.active.write().await = false; kill_current_process finds no process
CloseDeactivate(c) ==
    /\ closePc[c] = "deactivate"
    /\ active' = [active EXCEPT ![c] = FALSE]
    /\ closePc' = [closePc EXCEPT ![c] = "stream"]
    /\ UNCHANGED <<cfg, listener, sessions, phase, attempts, sent, loop,
                   streamLock, stopPc, stopQueue, nread, idle, fault>>
    /\ UNCHANGED <<shVars, cmdVars, polVars, libVars>>

\* self.stream.lock().await, then the Disconnect frame
CloseDisconnect(c) ==
    /\ closePc[c] = "stream"
    /\ streamLock[c] = "free"
    /\ Write(c, <<Msg("Disconnect", "Session closed by server", "")>>)
    /\ closePc' = [closePc EXCEPT ![c] = "done"]
    /\ UNCHANGED <<cfg, listener, sessions, phase, attempts, active, loop,
                   streamLock, stopPc, stopQueue, nread, idle, fault>>
    /\ UNCHANGED <<shVars, cmdVars, polVars, libVars>>

(***************************************************************************)
(* FshServer::stop: the listener is dropped, the registry is drained under *)
(* its write lock and the sessions are closed one after the other.         *)
(***************************************************************************)
StopBegin ==
    /\ stopPc = "idle"
    /\ listener' = FALSE
    /\ stopPc' = "draining"
    /\ stopQueue' = sessions
    /\ sessions' = {}
    /\ UNCHANGED <<cfg, phase, attempts, sent, active, loop,
                   streamLock, closePc, nread, idle, fault>>
    /\ UNCHANGED <<shVars, cmdVars, polVars, libVars>>

StopClose(c) ==
    /\ stopPc = "draining"
    /\ c \in stopQueue
    /\ closePc[c] = "none"
    /\ \A d \in stopQueue : closePc[d] \in {"none", "done"}
    /\ closePc' = [closePc EXCEPT ![c] = "deactivate"]
    /\ UNCHANGED <<cfg, listener, sessions, phase, attempts, sent, active, loop,
                   streamLock, stopPc, stopQueue, nread, idle, fault>>
    /\ UNCHANGED <<shVars, cmdVars, polVars, libVars>>

StopEnd ==
    /\ stopPc = "draining"
    /\ \A d \in stopQueue : closePc[d] = "done"
    /\ stopPc' = "done"
    /\ stopQueue' = {}
    /\ UNCHANGED <<cfg, listener, sessions, phase, attempts, sent, active, loop,
                   streamLock, closePc, nread, idle, fault>>
    /\ UNCHANGED <<shVars, cmdVars, polVars, libVars>>

\* the steps the runtime takes by itself once they are enabled
SrvStep(c) ==
    \/ CreateSession(c)
    \/ Insert(c)
    \/ LoopCheck(c)
    \/ LoopLock(c)
    \/ CloseDeactivate(c)
    \/ CloseDisconnect(c)
    \/ StopClose(c)

\* the steps driven by clients, by the operator or by the clock; W is the set
\* of frames the clients may put on the wire
SrvEnv(c, W) ==
    \/ Accept(c)
    \/ \E w \in W : HandleConnect(c, w)
    \/ \E w \in W : HandleAuthentication(c, w)
    \/ \E w \in W : HandleFolderBinding(c, w)
    \/ HandshakeTimeout(c)
    \/ \E w \in W : LoopReadError(c, w)
    \/ \E w \in W, shellOk \in BOOLEAN : LoopMessage(c, w, shellOk)
    \/ LoopTimeout(c)
    \/ CloseSession(c)

(***************************************************************************)
(* The sandbox: file system, PathValidator, the cd builtin (SpecShell).    *)
(*                                                                         *)
(* A path is the sequence of its components below "/"; a path given by a   *)
(* client is [abs, comps], comps possibly holding "..".                    *)
(***************************************************************************)
\* the host file system of the run:
\*   /srv/root        the folder       /srv/root/sub/deep   directories
\*   /srv/root/f.txt  a file           /srv/root/out -> /etc
\*   /srv/root/in -> /srv/root/sub     /lnk -> /srv/root    /etc/passwd
FsDirs ==
    { <<>>, <<"srv">>, <<"srv", "root">>, <<"srv", "root", "sub">>,
      <<"srv", "root", "sub", "deep">>, <<"etc">> }

FsFiles == { <<"srv", "root", "f.txt">>, <<"etc", "passwd">> }

FsLinks == { <<"srv", "root", "out">>, <<"srv", "root", "in">>, <<"lnk">> }

LinkTarget(p) ==
    CASE p = <<"srv", "root", "out">> -> <<"etc">>
      [] p = <<"srv", "root", "in">> -> <<"srv", "root", "sub">>
      [] p = <<"lnk">> -> <<"srv", "root">>

\* Path::parent: None for "/" (modelled as ok = FALSE), else the path without
\* its last component
parent(p) ==
    IF p = <<>> THEN [some |-> FALSE, path |-> <<>>]
    ELSE [some |-> TRUE, path |-> SubSeq(p, 1, Len(p) - 1)]

\* Path::starts_with, component-wise
starts_with(p, base) ==
    Len(base) <= Len(p) /\ SubSeq(p, 1, Len(base)) = base

\* std::fs::canonicalize of the absolute path cur/rest: symlinks and ".." are
\* resolved left to right; a missing component or a component below a file fails
RECURSIVE Resolve(_, _)
Resolve(cur, rest) ==
    IF rest = <<>> THEN [ok |-> TRUE, path |-> cur]
    ELSE IF Head(rest) = ".."
    THEN Resolve(IF cur = <<>> THEN <<>> ELSE SubSeq(cur, 1, Len(cur) - 1), Tail(rest))
    ELSE LET next == Append(cur, Head(rest)) IN
         IF next \in FsDirs THEN Resolve(next, Tail(rest))
         ELSE IF next \in FsLinks THEN Resolve(LinkTarget(next), Tail(rest))
         ELSE IF next \in FsFiles /\ Tail(rest) = <<>> THEN [ok |-> TRUE, path |-> next]
         ELSE [ok |-> FALSE, path |-> <<>>]

canonicalize(p) == Resolve(<<>>, p)

\* Path::is_dir (follows symlinks)
is_dir(p) == canonicalize(p).ok /\ canonicalize(p).path \in FsDirs

\* Path::join
join(base, q) == IF q.abs THEN q.comps ELSE base \o q.comps

Rel(comps) == [abs |-> FALSE, comps |-> comps]

Abs(comps) == [abs |-> TRUE, comps |-> comps]

\* the paths clients ask for
PathInputs ==
    { Rel(<<"sub">>), Rel(<<"f.txt">>), Rel(<<"..">>), Rel(<<"sub", "..">>),
      Rel(<<"sub", "deep">>), Rel(<<"deep">>), Rel(<<"..", "..", "etc", "passwd">>),
      Rel(<<"out">>), Rel(<<"out", "passwd">>), Rel(<<"in">>), Rel(<<"missing">>),
      Abs(<<"etc">>), Abs(<<"srv", "root", "sub">>), Abs(<<"lnk", "sub">>),
      Abs(<<"srv">>), Abs(<<"nowhere">>) }

\* the configured folder paths of the run: canonical, through a symlink, "/"
RootChoices == { <<"srv", "root">>, <<"lnk">>, <<>> }

\* PathValidator.root_path: the configured root, canonicalized by PathValidator::new
validator_root == canonicalize(shRoot).path

\* validate_path without the check of the canonical path against the root
validate_path_unchecked(q) ==
    LET canonical_path == canonicalize(join(validator_root, q))
    IN  IF ~canonical_path.ok THEN [ok |-> FALSE, err |-> "InvalidPath", path |-> <<>>]
        ELSE [ok |-> TRUE, err |-> "", path |-> canonical_path.path]

\* PathValidator::validate_path
validate_path(q) ==
    LET absolute_path == join(validator_root, q)
        canonical_path == canonicalize(absolute_path)
    IN  IF ~canonical_path.ok THEN [ok |-> FALSE, err |-> "InvalidPath", path |-> <<>>]
        ELSE IF ~starts_with(canonical_path.path, validator_root)
        THEN [ok |-> FALSE, err |-> "PermissionDenied", path |-> <<>>]
        ELSE [ok |-> TRUE, err |-> "", path |-> canonical_path.path]

NoArg == [given |-> FALSE, abs |-> FALSE, comps |-> <<>>]

Arg(q) == [given |-> TRUE, abs |-> q.abs, comps |-> q.comps]

\* what a call returned: Err(err) when err # "", else a CommandResult (cd) or
\* the path (validate_path)
Returned(op, arg, before, err, exit_code, stderr, path) ==
    [op |-> op, arg |-> arg, before |-> before, err |-> err,
     exit_code |-> exit_code, stderr |-> stderr, path |-> path]

\* the "cd" builtin with ".." taken to the parent without the starts_with test
CdTargetParentUnchecked(arg) ==
    IF ~arg.given THEN [kind |-> "dir", path |-> shRoot, err |-> ""]
    ELSE IF ~arg.abs /\ arg.comps = <<"..">>
    THEN IF parent(wd).some
         THEN [kind |-> "dir", path |-> parent(wd).path, err |-> ""]
         ELSE [kind |-> "dir", path |-> shRoot, err |-> ""]
    ELSE LET second == validate_path(Abs(join(wd, arg))) IN
         IF ~second.ok THEN [kind |-> "err", path |-> <<>>, err |-> second.err]
         ELSE [kind |-> "dir", path |-> second.path, err |-> ""]

\* SandboxedShell::handle_builtin_command, "cd": the target directory or the
\* early return
CdTarget(arg) ==
    IF ~arg.given THEN [kind |-> "dir", path |-> shRoot, err |-> ""]
    ELSE IF ~arg.abs /\ arg.comps = <<"..">>
    THEN IF parent(wd).some
         THEN IF starts_with(parent(wd).path, shRoot)
              THEN [kind |-> "dir", path |-> parent(wd).path, err |-> ""]
              ELSE [kind |-> "denied", path |-> <<>>, err |-> ""]
         ELSE [kind |-> "dir", path |-> shRoot, err |-> ""]
    ELSE LET first == IF arg.abs THEN validate_path(arg)
                      ELSE [ok |-> TRUE, err |-> "", path |-> join(wd, arg)]
         IN  IF ~first.ok THEN [kind |-> "err", path |-> <<>>, err |-> first.err]
             ELSE LET second == validate_path(Abs(first.path)) IN
                  IF ~second.ok THEN [kind |-> "err", path |-> <<>>, err |-> second.err]
                  ELSE [kind |-> "dir", path |-> second.path, err |-> ""]

\* the "cd" builtin: the new working directory and what the call returns
CdResult(arg) ==
    LET t == CdTarget(arg) IN
    IF t.kind = "dir" /\ is_dir(t.path)
    THEN [wd |-> t.path, ret |-> Returned("cd", arg, wd, "", 0, "", t.path)]
    ELSE [wd |-> wd,
          ret |-> IF t.kind = "err" THEN Returned("cd", arg, wd, t.err, 0, "", <<>>)
                  ELSE IF t.kind = "denied"
                  THEN Returned("cd", arg, wd, "", 1,
                                "Access denied: Cannot navigate above project folder", <<>>)
                  ELSE Returned("cd", arg, wd, "", 1, "Directory not found", <<>>)]

Cd(arg) ==
    /\ wd' = CdResult(arg).wd
    /\ shLast' = CdResult(arg).ret
    /\ UNCHANGED shRoot
    /\ UNCHANGED <<srvVars, cmdVars, polVars, libVars>>

\* a call of PathValidator::validate_path (list_files, file requests)
ValidatePath(q) ==
    LET r == validate_path(q) IN
    /\ shLast' = Returned("validate_path", Arg(q), wd, r.err, 0, "", r.path)
    /\ UNCHANGED <<shRoot, wd>>
    /\ UNCHANGED <<srvVars, cmdVars, polVars, libVars>>

ShInit ==
    /\ shRoot \in RootChoices
    /\ wd = shRoot
    /\ shLast = Returned("none", NoArg, shRoot, "", 0, "", <<>>)

ShNext ==
    \/ \E arg \in {NoArg} \cup { Arg(q) : q \in PathInputs } : Cd(arg)
    \/ \E q \in PathInputs : ValidatePath(q)

(***************************************************************************)
(* One session executing commands (SpecCmd): handle_command,               *)
(* SandboxedShell::execute_command, the tasks it spawns and the forwarder  *)
(* handle_command spawns.  Strings are the program's strings.              *)
(***************************************************************************)
\* str::contains
Contains(s, p) == \E i \in 0..(Len(s) - Len(p)) : SubSeq(s, i + 1, i + Len(p)) = p

\* str::starts_with
StartsWith(s, p) == Len(p) <= Len(s) /\ SubSeq(s, 1, Len(p)) = p

UpperCase == "ABCDEFGHIJKLMNOPQRSTUVWXYZ"

LowerCase == "abcdefghijklmnopqrstuvwxyz"

\* str::to_lowercase
RECURSIVE to_lowercase(_)
to_lowercase(s) ==
    IF s = "" THEN ""
    ELSE LET ch == SubSeq(s, 1, 1)
             up == { i \in 1..26 : SubSeq(UpperCase, i, i) = ch }
         IN  (IF up = {} THEN ch ELSE LET i == CHOOSE i \in up : TRUE IN SubSeq(LowerCase, i, i))
               \o to_lowercase(SubSeq(s, 2, Len(s)))

\* [String]::join(" ")
RECURSIVE JoinSpace(_)
JoinSpace(args) ==
    IF args = <<>> THEN ""
    ELSE IF Len(args) = 1 THEN args[1]
    ELSE args[1] \o " " \o JoinSpace(Tail(args))

\* PathBuf::from on a string: whether it is absolute, and its components
RECURSIVE Components(_, _)
Components(s, cur) ==
    IF s = "" THEN (IF cur = "" THEN <<>> ELSE <<cur>>)
    ELSE LET ch == SubSeq(s, 1, 1)
             rest == SubSeq(s, 2, Len(s))
         IN  IF ch = "/"
             THEN (IF cur = "" THEN <<>> ELSE <<cur>>) \o Components(rest, "")
             ELSE Components(rest, cur \o ch)

PathBuf(s) == [given |-> TRUE, abs |-> StartsWith(s, "/"), comps |-> Components(s, "")]

\* PathValidator::is_absolute_windows_path
is_absolute_windows_path(path) ==
    IF platform # "windows" THEN FALSE
    ELSE IF Len(path) >= 2 /\ SubSeq(path, 2, 2) = ":"
    THEN Contains(UpperCase \o LowerCase, SubSeq(path, 1, 1))
    ELSE StartsWith(path, "\\\\")

\* PathValidator::validate_command_path
validate_command_path(command) ==
    IF \E pattern \in {"../", "..\\", "/../../", "\\..\\..\\"} : Contains(command, pattern)
    THEN [ok |-> FALSE, err |-> "PermissionDenied", what |-> "Command contains dangerous path traversal"]
    ELSE IF /\ Contains(command, ":")
            /\ (Contains(command, "\\") \/ Contains(command, "/"))
            /\ platform = "windows"
            /\ is_absolute_windows_path(command)
    THEN [ok |-> FALSE, err |-> "PermissionDenied", what |-> "Absolute paths are not allowed"]
    ELSE IF StartsWith(command, "/") /\ platform = "unix"
    THEN [ok |-> FALSE, err |-> "PermissionDenied", what |-> "Absolute paths are not allowed"]
    ELSE [ok |-> TRUE, err |-> "", what |-> ""]

\* SandboxConfig::is_command_allowed on the lists Session::new copies from
\* the folder f
SandboxConfig_allows(f, command) ==
    IF \E blocked \in f.blocked_commands : Contains(command, blocked) THEN FALSE
    ELSE IF f.allowed_commands = {} THEN TRUE
    ELSE \E allowed \in f.allowed_commands :
            StartsWith(command, allowed) \/ Contains(command, "/" \o allowed)

\* SandboxConfig::is_command_allowed
SandboxConfig_is_command_allowed(command) == SandboxConfig_allows(cfg, command)

\* SandboxedShell::prepare_shell_command (ShellType::Bash)
prepare_shell_command(command, args) ==
    LET full_command == IF args = <<>> THEN command ELSE command \o " " \o JoinSpace(args)
    IN  [program |-> "bash", flag |-> "-c", full_command |-> full_command]

\* the patterns of SecurityManager::validate_command
dangerous_patterns ==
    { "rm -rf /", "del /f /q", "format", "fdisk", "dd if=", "mkfs", "shutdown",
      "reboot", "halt", "poweroff", "sudo su", "sudo -i", "passwd", "chpasswd",
      "../../../", "..\\..\\..\\" }

\* SecurityManager::validate_command: the result and the events it logs
validate_command(command) ==
    IF \E pattern \in dangerous_patterns : Contains(to_lowercase(command), pattern)
    THEN [ok |-> FALSE, err |-> "PermissionDenied",
          events |-> <<"CommandExecution", "SuspiciousActivity">>]
    ELSE [ok |-> TRUE, err |-> "", events |-> <<"CommandExecution">>]

\* Path::display on a path under "/"
RECURSIVE display(_)
display(path) == IF path = <<>> THEN "" ELSE "/" \o Head(path) \o display(Tail(path))

\* std::env::vars() of the server process
HostEnvironment ==
    { <<"PATH", "/usr/bin">>, <<"HOME", "/home/fsh">>, <<"AWS_SECRET_ACCESS_KEY", "k">> }

\* env[key] = value for every pair of added, the other variables of env kept
Overlay(env, added) == { p \in env : ~\E q \in added : q[1] = p[1] } \cup added

\* SandboxConfig.environment_vars: FSH_ROOT and FSH_MODE of SandboxConfig::new,
\* then the folder's environment_vars, added by Session::new
SandboxEnvironmentVars ==
    Overlay({ <<"FSH_ROOT", display(shRoot)>>, <<"FSH_MODE", "restricted">> },
            cfg.environment_vars)

\* the list of SandboxConfig::is_system_aware_command (of its 33 entries,
\* those the commands of the runs can start with)
sandbox_system_aware_commands == {"git", "npm", "go", "make"}

\* SandboxConfig::is_system_aware_command
SandboxConfig_is_system_aware_command(command) ==
    \E cmd \in sandbox_system_aware_commands :
        command = cmd \/ StartsWith(command, cmd \o " ")

\* the environment execute_external_command gives the child.  A
\* std::process::Command inherits the environment of its parent unless
\* env_clear is called; env adds or replaces one variable.
child_environment(command, working_directory) ==
    IF SandboxConfig_is_system_aware_command(command)
    THEN Overlay(Overlay(HostEnvironment, SandboxEnvironmentVars),
                 { <<"PATH", display(working_directory) \o ";" \o p[2]>> :
                     p \in { q \in HostEnvironment : q[1] = "PATH" } })
    ELSE Overlay(HostEnvironment, SandboxEnvironmentVars)

\* the Command frames of the run: command and args of CommandMessage
Command(command, args) == [command |-> command, args |-> args]

CommandInputs ==
    { Command("ls", <<>>), Command("pwd", <<>>), Command("CD", <<"sub">>),
      Command("cd", <<"..">>), Command("cd", <<"/etc">>),
      Command("cat", <<"../../etc/passwd">>), Command("cat", <<"/etc/passwd">>),
      Command("../x", <<>>), Command("/bin/ls", <<>>), Command("C:\\x", <<>>),
      Command("sudo", <<"id">>), Command("env", <<"sudo", "id">>),
      Command("mkfs", <<".">>), Command("rm", <<"-rf", "/">>),
      Command("git", <<"status">>) }

\* the commands of the runs of a session that reads several (SpecSession)
FollowUps == { Command("ls", <<>>), Command("pwd", <<>>) }

\* a frame on the stream; k is the command it answers (0: none)
Frame(t, k, a, code) == [t |-> t, k |-> k, a |-> a, code |-> code]

\* the state of command k.  kind: "refused" (no Execute permission), "failed"
\* (execute_command returned Err(err)), "builtin", "external".  pending: what the
\* task of a builtin has still to send.  stdout, stderr: lines in the child's
\* pipes not yet read.  output, result: the two channels.
Task(c, kind, err, pending, stdout, stderr, exit_code) ==
    [command |-> c.command, args |-> c.args, kind |-> kind, err |-> err,
     pending |-> pending, stdout |-> stdout, stderr |-> stderr,
     exit_code |-> exit_code, waited |-> FALSE, output |-> <<>>, result |-> <<>>]

\* what execute_command comes to before any child is spawned: Err(err) ("failed"),
\* the CommandResult of a builtin, or an external command to run; with the
\* working directory and the shell's last return it leaves
Outcome(kind, err, dir, ret, exit_code, stderr) ==
    [kind |-> kind, err |-> err, wd |-> dir, ret |-> ret,
     exit_code |-> exit_code, stderr |-> stderr]

\* execute_command on what handle_builtin_command's "cd" returned
CdOutcome(r) ==
    IF r.ret.err # "" THEN Outcome("failed", r.ret.err, wd, r.ret, 0, "")
    ELSE Outcome("builtin", "", r.wd, r.ret, r.ret.exit_code, r.ret.stderr)

\* SandboxedShell::execute_command up to the spawn of the child
execute_command(command, args) ==
    IF ~validate_command_path(command).ok
    THEN Outcome("failed", validate_command_path(command).err, wd, shLast, 0, "")
    ELSE IF ~SandboxConfig_is_command_allowed(command)
    THEN Outcome("failed", "PermissionDenied", wd, shLast, 0, "")
    ELSE IF to_lowercase(command) = "cd"
    THEN CdOutcome(CdResult(IF args = <<>> THEN NoArg ELSE PathBuf(args[1])))
    ELSE IF to_lowercase(command) = "pwd" THEN Outcome("builtin", "", wd, shLast, 0, "")
    ELSE Outcome("external", "", wd, shLast, 0, "")

Pings == Len(SelectSeq(stream, LAMBDA f : f.t = "Ping"))

\* the session of SpecCmd in the server's per-session variables
TheSession == 1

\* SandboxedShell.current_process: None from SandboxedShell::new on, no
\* statement of the program assigns it (k: the command whose child it holds)
current_process == [some |-> FALSE, k |-> 0]

\* SandboxedShell::kill_current_process: child.kill() on the process taken out
\* of current_process, if any; a killed child has no exit code (-1) and its
\* pipes are at EOF
kill_current_process(tasks) ==
    IF current_process.some /\ current_process.k \in 1..Len(tasks)
    THEN [tasks EXCEPT ![current_process.k].exit_code = IF @.waited THEN @.exit_code ELSE -1,
                       ![current_process.k].stdout = 0,
                       ![current_process.k].stderr = 0]
    ELSE tasks

\* what the match arm of message_loop does with handle_command's future: it
\* awaits it ("await"); a loop that spawned it would be back at its top
handle_command_spawned == "top"

handle_command_awaited == "await"

\* message_loop: while *active.read().await; the reader takes the stream's
\* mutex and starts a read
RdLock ==
    /\ rd = "top"
    /\ active[TheSession]
    /\ rd' = "reading"
    /\ UNCHANGED <<platform, ncmd, task, stream, spawned, audit>>
    /\ UNCHANGED <<srvVars, shVars, polVars, libVars>>

\* message_loop: the read times out; Ping is written, the mutex released
RdTimeout ==
    /\ rd = "reading"
    /\ Pings < MaxCmdPings \/ ~active[TheSession]
    /\ stream' = Append(stream, Frame("Ping", 0, "", 0))
    /\ rd' = "top"
    /\ UNCHANGED <<platform, ncmd, task, spawned, audit>>
    /\ UNCHANGED <<srvVars, shVars, polVars, libVars>>

\* message_loop reads a Command frame and calls handle_command, which runs up to
\* its wait on the result channel.  spawnOk, nOut, nErr, code: whether the child
\* can be spawned, the lines it writes and its exit code.
RdCommand(c, spawnOk, nOut, nErr, code) ==
    /\ rd = "reading"
    /\ ncmd < MaxCmds
    /\ \E k \in {ncmd + 1}, e \in {execute_command(c.command, c.args)},
          line \in {prepare_shell_command(c.command, c.args)},
          env \in {child_environment(c.command, wd)} :
          /\ ncmd' = k
          /\ IF ~can_execute
             THEN /\ task' = Append(task, Task(c, "refused", "", <<>>, 0, 0, 0))
                  /\ stream' = Append(stream, Frame("Error", k, "permission_denied", 0))
                  /\ rd' = "top"
                  /\ UNCHANGED <<wd, shLast, spawned>>
             ELSE IF e.kind = "failed"
             THEN /\ task' = Append(task, Task(c, "failed", e.err, <<>>, 0, 0, 0))
                  /\ stream' = Append(stream, Frame("Error", k, "command_error", 0))
                  /\ rd' = "top"
                  /\ shLast' = e.ret
                  /\ UNCHANGED <<wd, spawned>>
             ELSE IF e.kind = "builtin"
             THEN /\ task' = Append(task,
                       Task(c, "builtin", "",
                            <<"Stdout">> \o (IF e.stderr # "" THEN <<"Stderr">> ELSE <<>>)
                              \o <<"result">>,
                            0, 0, e.exit_code))
                  /\ wd' = e.wd
                  /\ shLast' = e.ret
                  /\ rd' = handle_command_awaited
                  /\ UNCHANGED <<stream, spawned>>
             ELSE IF ~spawnOk
             THEN /\ task' = Append(task, Task(c, "failed", "ShellError", <<>>, 0, 0, 0))
                  /\ stream' = Append(stream, Frame("Error", k, "command_error", 0))
                  /\ rd' = "top"
                  /\ UNCHANGED <<wd, shLast, spawned>>
             ELSE /\ task' = Append(task, Task(c, "external", "", <<>>, nOut, nErr, code))
                  /\ spawned' = Append(spawned,
                       [k |-> k, program |-> line.program, flag |-> line.flag,
                        full_command |-> line.full_command, current_dir |-> wd,
                        command |-> c.command, env |-> env])
                  /\ rd' = handle_command_awaited
                  /\ UNCHANGED <<wd, shLast, stream>>
    /\ UNCHANGED <<platform, audit, shRoot>>
    /\ UNCHANGED <<srvVars, polVars, libVars>>

\* the first Command frame of a session
RdFirstCommand(c, spawnOk, nOut, nErr, code) ==
    /\ ncmd = 0
    /\ RdCommand(c, spawnOk, nOut, nErr, code)

\* the task of a builtin sends its next item: stdout, stderr, then the result
BuiltinSend(k) ==
    /\ k \in 1..Len(task)
    /\ task[k].pending # <<>>
    /\ task' = [task EXCEPT
         ![k].pending = Tail(@),
         ![k].output = IF Head(task[k].pending) = "result" THEN @
                       ELSE Append(@, Head(task[k].pending)),
         ![k].result = IF Head(task[k].pending) = "result"
                       THEN Append(@, task[k].exit_code) ELSE @]
    /\ UNCHANGED <<platform, rd, ncmd, stream, spawned, audit>>
    /\ UNCHANGED <<srvVars, shVars, polVars, libVars>>

\* the stdout task reads a line of the child and sends it to the output channel
StdoutLine(k) ==
    /\ k \in 1..Len(task)
    /\ task[k].stdout > 0
    /\ task' = [task EXCEPT ![k].stdout = @ - 1, ![k].output = Append(@, "Stdout")]
    /\ UNCHANGED <<platform, rd, ncmd, stream, spawned, audit>>
    /\ UNCHANGED <<srvVars, shVars, polVars, libVars>>

\* the stderr task, likewise
StderrLine(k) ==
    /\ k \in 1..Len(task)
    /\ task[k].stderr > 0
    /\ task' = [task EXCEPT ![k].stderr = @ - 1, ![k].output = Append(@, "Stderr")]
    /\ UNCHANGED <<platform, rd, ncmd, stream, spawned, audit>>
    /\ UNCHANGED <<srvVars, shVars, polVars, libVars>>

\* the wait task: child.wait() returns and the result is sent
ChildWait(k) ==
    /\ k \in 1..Len(task)
    /\ task[k].kind = "external"
    /\ ~task[k].waited
    /\ task' = [task EXCEPT ![k].waited = TRUE, ![k].result = Append(@, task[k].exit_code)]
    /\ UNCHANGED <<platform, rd, ncmd, stream, spawned, audit>>
    /\ UNCHANGED <<srvVars, shVars, polVars, libVars>>

\* the forwarder spawned by handle_command: receives an output, takes the
\* stream's mutex (free unless the reader is in a read) and writes CommandOutput
Forward(k) ==
    /\ k \in 1..Len(task)
    /\ task[k].output # <<>>
    /\ rd # "reading"
    /\ stream' = Append(stream, Frame("CommandOutput", k, Head(task[k].output), 0))
    /\ task' = [task EXCEPT ![k].output = Tail(@)]
    /\ UNCHANGED <<platform, rd, ncmd, spawned, audit>>
    /\ UNCHANGED <<srvVars, shVars, polVars, libVars>>

\* handle_command: the result arrives; CommandComplete is written and
\* handle_command returns to the message loop
RdComplete ==
    /\ rd = "await"
    /\ task[ncmd].result # <<>>
    /\ stream' = Append(stream, Frame("CommandComplete", ncmd, "", Head(task[ncmd].result)))
    /\ task' = [task EXCEPT ![ncmd].result = Tail(@)]
    /\ rd' = "top"
    /\ UNCHANGED <<platform, ncmd, spawned, audit>>
    /\ UNCHANGED <<srvVars, shVars, polVars, libVars>>

\* message_loop: active is false at the top of the loop; the loop is left
RdExit ==
    /\ rd = "top"
    /\ ~active[TheSession]
    /\ rd' = "ended"
    /\ UNCHANGED <<platform, ncmd, task, stream, spawned, audit>>
    /\ UNCHANGED <<srvVars, shVars, polVars, libVars>>

\* Session::close up to its wait for the stream: active is set to false, the
\* shell's mutex is taken (handle_command holds it only inside execute_command)
\* and kill_current_process is called
CmdClose ==
    /\ closePc[TheSession] = "none"
    /\ active' = [active EXCEPT ![TheSession] = FALSE]
    /\ task' = kill_current_process(task)
    /\ closePc' = [closePc EXCEPT ![TheSession] = "stream"]
    /\ UNCHANGED <<platform, rd, ncmd, stream, spawned, audit>>
    /\ UNCHANGED <<cfg, listener, sessions, phase, attempts, sent, loop,
                   streamLock, stopPc, stopQueue, nread, idle, fault>>
    /\ UNCHANGED <<shVars, polVars, libVars>>

\* Session::close: the stream's mutex is taken (free unless the reader is in
\* a read), Disconnect is written and close returns
CmdCloseDisconnect ==
    /\ closePc[TheSession] = "stream"
    /\ rd # "reading"
    /\ stream' = Append(stream, Frame("Disconnect", 0, "", 0))
    /\ closePc' = [closePc EXCEPT ![TheSession] = "done"]
    /\ UNCHANGED <<platform, rd, ncmd, task, spawned, audit>>
    /\ UNCHANGED <<cfg, listener, sessions, phase, attempts, sent, active, loop,
                   streamLock, stopPc, stopQueue, nread, idle, fault>>
    /\ UNCHANGED <<shVars, polVars, libVars>>

CmdRest ==
    /\ rd = "top"
    /\ ncmd = 0
    /\ task = <<>>
    /\ stream = <<>>
    /\ spawned = <<>>
    /\ audit = <<>>

CmdNext ==
    \/ RdLock
    \/ RdTimeout
    \/ \E c \in CommandInputs, spawnOk \in BOOLEAN, nOut \in 0..MaxLines,
          nErr \in 0..MaxLines, code \in {0, 1} : RdFirstCommand(c, spawnOk, nOut, nErr, code)
    \/ RdComplete
    \/ RdExit
    \/ CmdClose
    \/ CmdCloseDisconnect
    \/ \E k \in 1..MaxCmds : BuiltinSend(k)
    \/ \E k \in 1..MaxCmds : StdoutLine(k)
    \/ \E k \in 1..MaxCmds : StderrLine(k)
    \/ \E k \in 1..MaxCmds : ChildWait(k)
    \/ \E k \in 1..MaxCmds : Forward(k)

(***************************************************************************)
(* config::FolderConfig: its builders and its policy (SpecFolder).  The    *)
(* folder being built is the folder of cfg.                                *)
(***************************************************************************)
\* FolderConfig::default_allowed_commands, default_blocked_commands (of their
\* entries, those the commands of the runs can contain)
default_allowed_commands == {"ls", "cat", "cd", "pwd", "git"}

default_blocked_commands == {"su", "sudo", "dd"}

\* system_aware_commands as FolderConfig::new sets it or as the configuration
\* file gives it (the field has no builder)
SystemAwareChoices == { None, Some({}), Some({"git"}), Some(default_system_aware_commands) }

\* FolderConfig::new
FolderConfig_new(system_aware) ==
    [require_authentication |-> FALSE, permissions |-> AllPermissions, readonly |-> FALSE,
     allowed_commands |-> default_allowed_commands,
     blocked_commands |-> default_blocked_commands,
     system_aware_commands |-> system_aware, environment_vars |-> {}]

\* FolderConfig::with_permissions
with_permissions(f, permissions) == [f EXCEPT !.permissions = permissions]

\* FolderConfig::with_readonly
with_readonly(f, readonly) ==
    [f EXCEPT !.readonly = readonly,
              !.permissions = IF readonly THEN @ \ {"Write"} ELSE @]

\* FolderConfig::with_allowed_commands
with_allowed_commands(f, commands) == [f EXCEPT !.allowed_commands = commands]

\* FolderConfig::with_blocked_commands
with_blocked_commands(f, commands) == [f EXCEPT !.blocked_commands = commands]

\* a policy whose empty block-list blocks everything
is_command_allowed_empty_blocks_all(f, command) ==
    /\ f.blocked_commands # {}
    /\ ~\E blocked \in f.blocked_commands : Contains(command, blocked)

\* a policy with the allow-list rule of the sandbox: no system-aware
\* commands, no wildcard, no backslash
is_command_allowed_as_sandbox(f, command) == SandboxConfig_allows(f, command)

\* FolderConfig::is_command_allowed
FolderConfig_is_command_allowed(f, command) ==
    IF \E blocked \in f.blocked_commands : Contains(command, blocked) THEN FALSE
    ELSE IF /\ f.system_aware_commands.some
            /\ \E sys_cmd \in f.system_aware_commands.cmds : Contains(command, sys_cmd)
    THEN TRUE
    ELSE IF "*" \in f.allowed_commands THEN TRUE
    ELSE IF f.allowed_commands = {} THEN TRUE
    ELSE \E allowed \in f.allowed_commands :
            \/ StartsWith(command, allowed)
            \/ Contains(command, "/" \o allowed)
            \/ Contains(command, "\\" \o allowed)

\* FolderConfig::is_system_aware_command
FolderConfig_is_system_aware_command(f, command) ==
    /\ f.system_aware_commands.some
    /\ \E sys_cmd \in f.system_aware_commands.cmds : Contains(command, sys_cmd)

\* the arguments the builders are called with
PermissionChoices == { AllPermissions, {"Read"}, {"Write"}, {"Read", "Write"} }

AllowedChoices == { {}, {"*"}, {"ls", "cat"}, default_allowed_commands }

BlockedChoices == { {}, {"rm"}, {"su"}, {"rm", "su"}, default_blocked_commands }

\* the command strings the policy is asked about
PolicyCommands ==
    { "ls -la", "cat file.txt", "rm file.txt", "chmod 777 file", "sum x", "/bin/ls",
      "C:\\bin\\ls", "git status", "magit", "gopher" }

NoPolicy ==
    [asked |-> FALSE, command |-> "", blocked |-> {}, allowed |-> FALSE,
     sandbox_allowed |-> FALSE, system_aware |-> FALSE, can_write |-> FALSE]

\* the server parts a builder leaves alone
FolderRest ==
    UNCHANGED <<listener, sessions, phase, attempts, sent, active, loop,
                streamLock, closePc, stopPc, stopQueue, nread, idle, fault>>

WithPermissions(permissions) ==
    /\ cfg' = with_permissions(cfg, permissions)
    /\ policy' = NoPolicy
    /\ FolderRest
    /\ UNCHANGED <<shVars, cmdVars, libVars>>

WithReadonly(readonly) ==
    /\ cfg' = with_readonly(cfg, readonly)
    /\ policy' = NoPolicy
    /\ FolderRest
    /\ UNCHANGED <<shVars, cmdVars, libVars>>

WithAllowedCommands(commands) ==
    /\ cfg' = with_allowed_commands(cfg, commands)
    /\ policy' = NoPolicy
    /\ FolderRest
    /\ UNCHANGED <<shVars, cmdVars, libVars>>

\* with_blocked_commands; the last answers stay, with the block-list they
\* were given under
WithBlockedCommands(commands) ==
    /\ cfg' = with_blocked_commands(cfg, commands)
    /\ FolderRest
    /\ UNCHANGED <<shVars, cmdVars, polVars, libVars>>

\* can_write, is_command_allowed, is_system_aware_command and the sandbox's
\* is_command_allowed are called on the folder as it is
AskPolicy(command) ==
    /\ policy' = [asked |-> TRUE, command |-> command, blocked |-> cfg.blocked_commands,
                  allowed |-> FolderConfig_is_command_allowed(cfg, command),
                  sandbox_allowed |-> SandboxConfig_is_command_allowed(command),
                  system_aware |-> FolderConfig_is_system_aware_command(cfg, command),
                  can_write |-> can_write]
    /\ UNCHANGED <<srvVars, shVars, cmdVars, libVars>>

PolIdle == policy = NoPolicy

FolderNext ==
    \/ \E permissions \in PermissionChoices : WithPermissions(permissions)
    \/ \E readonly \in BOOLEAN : WithReadonly(readonly)
    \/ \E commands \in AllowedChoices : WithAllowedCommands(commands)
    \/ \E commands \in BlockedChoices : WithBlockedCommands(commands)
    \/ \E command \in PolicyCommands : AskPolicy(command)

(***************************************************************************)
(* PathValidator::sanitize_output_path and the stdout and stderr tasks of  *)
(* execute_external_command (SpecSanitize).                                *)
(***************************************************************************)
\* str::replace: the non-overlapping matches of from, left to right (from # "")
RECURSIVE str_replace(_, _, _)
str_replace(s, from, to) ==
    IF Len(s) < Len(from) THEN s
    ELSE IF StartsWith(s, from)
    THEN to \o str_replace(SubSeq(s, Len(from) + 1, Len(s)), from, to)
    ELSE SubSeq(s, 1, 1) \o str_replace(SubSeq(s, 2, Len(s)), from, to)

\* PathValidator::sanitize_output_path
sanitize_output_path(root_str, output) == str_replace(output, root_str, ".")

\* root_path.to_string_lossy() of the validators of the runs
SanitizeRoots == { "/srv/root", "/srv/a.b", "/a" }

\* the lines a child writes: three pieces each
LinePieces == { "", "/srv", "/srv/root", "/srv/a", "/srv/a.b", "/a", "b", ".b", " x" }

ChildLines == { x \o y \o z : x \in LinePieces, y \in LinePieces, z \in LinePieces }

\* the stdout and the stderr task: a line is read, sanitized and sent as
\* ShellOutput { output_type, data: format!("{}\n", sanitized_line) }
SanitizeLine(output_type, line) ==
    /\ san' = [root |-> san.root, output_type |-> output_type, line |-> line,
               data |-> sanitize_output_path(san.root, line) \o "\n"]
    /\ UNCHANGED <<srvVars, shVars, cmdVars, polVars, codecVars, mbVars, rlVars, smVars, amVars, cfVars>>

SanIdle == san = [root |-> "/srv/root", output_type |-> "none", line |-> "", data |-> ""]

(***************************************************************************)
(* FshCodec and MessageBuffer, on bytes.  A String is the sequence of its  *)
(* UTF-8 bytes (the strings of the runs are ASCII); bincode writes an enum *)
(* as the u32 little-endian index of the variant followed by the fields, a *)
(* bool as one byte, an Option as a tag byte followed by the value, and a  *)
(* String as its u64 little-endian length followed by its bytes.           *)
(***************************************************************************)
\* u32::to_le_bytes
to_le_bytes(n) == <<n % 256, (n \div 256) % 256, (n \div 65536) % 256, (n \div 16777216) % 256>>

\* (data.len() as u32).to_be_bytes(): the four low bytes of n
to_be_bytes(n) ==
    <<(n \div 16777216) % 256, (n \div 65536) % 256, (n \div 256) % 256, n % 256>>

\* u32::from_be_bytes
from_be_bytes(b) == b[1] * 16777216 + b[2] * 65536 + b[3] * 256 + b[4]

\* bincode's fixed-width little-endian integers
RECURSIVE from_le_bytes(_)
from_le_bytes(b) == IF b = <<>> THEN 0 ELSE b[1] + 256 * from_le_bytes(SubSeq(b, 2, Len(b)))

\* a usize below 2^32 as the u64 bincode writes
u64_le(n) == to_le_bytes(n) \o <<0, 0, 0, 0>>

\* Option<String>
NoString == [some |-> FALSE, s |-> <<>>]

SomeString(s) == [some |-> TRUE, s |-> s]

Ping == [t |-> "Ping"]

Pong == [t |-> "Pong"]

AuthResponseMessage(success, message) ==
    [t |-> "AuthResponse", success |-> success, message |-> message]

DisconnectMessage(reason) == [t |-> "Disconnect", reason |-> reason]

\* the index of a variant in the declaration of FshMessage
VariantIndex(t) ==
    CASE t = "AuthResponse" -> 3
      [] t = "Ping" -> 17
      [] t = "Pong" -> 18
      [] t = "Disconnect" -> 19

serialize_string(s) == u64_le(Len(s)) \o s

\* bincode::serialize
serialize(m) ==
    to_le_bytes(VariantIndex(m.t)) \o
    ( CASE m.t = "AuthResponse" ->
             <<IF m.success THEN 1 ELSE 0>> \o
             (IF m.message.some THEN <<1>> \o serialize_string(m.message.s) ELSE <<0>>)
        [] m.t = "Disconnect" -> serialize_string(m.reason)
        [] OTHER -> <<>> )

DeErr == [ok |-> FALSE, msg |-> [t |-> "none"], what |-> "Deserialization failed"]

DeOk(m) == [ok |-> TRUE, msg |-> m, what |-> ""]

\* a String read at offset i of b: its length, then that many bytes (a length
\* of 2^24 or more is past the end of every byte string of the runs)
deserialize_string(b, i) ==
    IF Len(b) < i + 7 THEN [ok |-> FALSE, s |-> <<>>]
    ELSE IF SubSeq(b, i + 3, i + 7) # <<0, 0, 0, 0, 0>> THEN [ok |-> FALSE, s |-> <<>>]
    ELSE IF Len(b) < i + 7 + from_le_bytes(SubSeq(b, i, i + 2)) THEN [ok |-> FALSE, s |-> <<>>]
    ELSE [ok |-> TRUE, s |-> SubSeq(b, i + 8, i + 7 + from_le_bytes(SubSeq(b, i, i + 2)))]

\* bincode::deserialize: bytes after the value are left unread; the other
\* nineteen variants start with a String or carry one after a bool, and no
\* payload of the runs holds one
deserialize(b) ==
    IF Len(b) < 4 THEN DeErr
    ELSE IF from_le_bytes(SubSeq(b, 1, 4)) = 17 THEN DeOk(Ping)
    ELSE IF from_le_bytes(SubSeq(b, 1, 4)) = 18 THEN DeOk(Pong)
    ELSE IF from_le_bytes(SubSeq(b, 1, 4)) = 19
    THEN IF deserialize_string(b, 5).ok
         THEN DeOk(DisconnectMessage(deserialize_string(b, 5).s))
         ELSE DeErr
    ELSE IF from_le_bytes(SubSeq(b, 1, 4)) = 3
    THEN IF Len(b) < 6 \/ b[5] \notin {0, 1} \/ b[6] \notin {0, 1} THEN DeErr
         ELSE IF b[6] = 0 THEN DeOk(AuthResponseMessage(b[5] = 1, NoString))
         ELSE IF deserialize_string(b, 7).ok
         THEN DeOk(AuthResponseMessage(b[5] = 1, SomeString(deserialize_string(b, 7).s)))
         ELSE DeErr
    ELSE DeErr

\* FshCodec::encode
encode(m) == FSH_MAGIC \o to_be_bytes(Len(serialize(m))) \o serialize(m)

CodecErr(what) == [ok |-> FALSE, msg |-> [t |-> "none"], what |-> what]

\* FshCodec::decode
decode(data) ==
    IF Len(data) < Len(FSH_MAGIC) + 4 THEN CodecErr("Insufficient data")
    ELSE IF SubSeq(data, 1, Len(FSH_MAGIC)) # FSH_MAGIC THEN CodecErr("Invalid magic bytes")
    ELSE IF Len(data) < Len(FSH_MAGIC) + 4 + from_be_bytes(SubSeq(data, 5, 8))
    THEN CodecErr("Incomplete message")
    ELSE deserialize(SubSeq(data, 9, 8 + from_be_bytes(SubSeq(data, 5, 8))))

NoMessage == [t |-> "none"]

\* the messages encoded in the runs
CodecStrings == { <<>>, <<111, 107>>, <<110, 111, 33>> }

CodecMessages ==
    {Ping, Pong}
      \cup { AuthResponseMessage(success, message) :
               success \in BOOLEAN,
               message \in {NoString} \cup { SomeString(s) : s \in CodecStrings } }
      \cup { DisconnectMessage(reason) : reason \in CodecStrings }

\* the byte strings handed to decode: every prefix of every frame, frames
\* behind a wrong first byte, and headers alone
DecodeInputs ==
    UNION { { SubSeq(encode(m), 1, n) : n \in 0..Len(encode(m)) } : m \in CodecMessages }
      \cup { <<0>> \o encode(m) : m \in CodecMessages }
      \cup { FSH_MAGIC \o to_be_bytes(n) : n \in {MAX_MESSAGE_LEN, MAX_MESSAGE_LEN + 1} }

\* encode(m) and decode of the result
Roundtrip(m) ==
    /\ codec' = [op |-> "roundtrip", msg |-> m, data |-> encode(m), out |-> decode(encode(m))]
    /\ UNCHANGED <<srvVars, shVars, cmdVars, polVars, sanVars, mbVars, rlVars, smVars, amVars, cfVars>>

\* decode of a byte string
Decode(data) ==
    /\ codec' = [op |-> "decode", msg |-> NoMessage, data |-> data, out |-> decode(data)]
    /\ UNCHANGED <<srvVars, shVars, cmdVars, polVars, sanVars, mbVars, rlVars, smVars, amVars, cfVars>>

CodecIdle == codec = [op |-> "none", msg |-> NoMessage, data |-> <<>>, out |-> CodecErr("")]

\* MessageBuffer::try_parse_messages, on the two fields of the buffer
RECURSIVE try_parse_messages(_)
try_parse_messages(self) ==
    IF Len(self.buffer) < Len(FSH_MAGIC) + 4 THEN self
    ELSE IF SubSeq(self.buffer, 1, Len(FSH_MAGIC)) # FSH_MAGIC
    THEN try_parse_messages([self EXCEPT !.buffer = SubSeq(self.buffer, 2, Len(self.buffer))])
    ELSE IF Len(self.buffer) < Len(FSH_MAGIC) + 4 + from_be_bytes(SubSeq(self.buffer, 5, 8))
    THEN self
    ELSE IF decode(SubSeq(self.buffer, 1, 8 + from_be_bytes(SubSeq(self.buffer, 5, 8)))).ok
    THEN try_parse_messages(
             [buffer |-> SubSeq(self.buffer, 9 + from_be_bytes(SubSeq(self.buffer, 5, 8)),
                                Len(self.buffer)),
              messages |-> Append(self.messages,
                  decode(SubSeq(self.buffer, 1, 8 + from_be_bytes(SubSeq(self.buffer, 5, 8)))).msg)])
    ELSE try_parse_messages(
             [self EXCEPT !.buffer = SubSeq(self.buffer, Len(FSH_MAGIC) + 1, Len(self.buffer))])

\* MessageBuffer::add_data
add_data(self, data) ==
    try_parse_messages([buffer |-> self.buffer \o data, messages |-> self.messages])

\* the bytes put before the frames of a stream
JunkPrefixes ==
    { <<>>, <<0>>, <<70, 83>>, <<70, 83, 72, 0, 9>>, FSH_MAGIC,
      FSH_MAGIC \o <<0, 0, 0, 0>>, FSH_MAGIC \o <<0, 0, 0, 4>>, FSH_MAGIC \o <<0, 0, 0, 1, 17>>,
      FSH_MAGIC \o to_be_bytes(MAX_MESSAGE_LEN + 1) }

StreamMessages == { Ping, Pong, AuthResponseMessage(TRUE, NoString) }

MaxFrames == 2

FrameSeqs == UNION { [1..n -> StreamMessages] : n \in 1..MaxFrames }

RECURSIVE encode_all(_)
encode_all(frames) ==
    IF frames = <<>> THEN <<>> ELSE encode(Head(frames)) \o encode_all(Tail(frames))

\* the bytes of a stream: the junk, then the frames
StreamBytes(junk, frames) == junk \o encode_all(frames)

\* add_data of the next n bytes of the stream, for every n
AddData ==
    /\ \E n \in 1..(Len(StreamBytes(mb.junk, mb.frames)) - mb.fed) :
       \E self \in { add_data([buffer |-> mb.buffer, messages |-> mb.messages],
                              SubSeq(StreamBytes(mb.junk, mb.frames), mb.fed + 1, mb.fed + n)) } :
           mb' = [mb EXCEPT !.fed = mb.fed + n,
                            !.buffer = self.buffer,
                            !.messages = self.messages]
    /\ UNCHANGED <<srvVars, shVars, cmdVars, polVars, sanVars, codecVars, rlVars, smVars, amVars, cfVars>>

\* a take_messages that returns a copy and keeps the messages
take_messages_clone(self) == [taken |-> self.messages, messages |-> self.messages]

\* std::mem::take(&mut self.messages)
take_messages(self) == [taken |-> self.messages, messages |-> <<>>]

\* take_messages; taken is everything the calls have returned so far
TakeMessages ==
    /\ mb' = [mb EXCEPT !.taken = mb.taken \o take_messages(mb).taken,
                        !.messages = take_messages(mb).messages]
    /\ UNCHANGED <<srvVars, shVars, cmdVars, polVars, sanVars, codecVars, rlVars, smVars, amVars, cfVars>>

NewStream(junk, frames) ==
    [junk |-> junk, frames |-> frames, fed |-> 0, buffer |-> <<>>, messages |-> <<>>,
     taken |-> <<>>]

MbIdle == mb = NewStream(<<>>, <<Ping>>)

(***************************************************************************)
(* RateLimiter and AdaptiveRateLimiter.  Instant::now() is the clock of    *)
(* the run, in ticks; a limiter is built with max_requests and a window    *)
(* of window_duration ticks.  allowed is the record, kept beside the       *)
(* limiter, of the instants at which allow answered true.                  *)
(***************************************************************************)
max_requests == 2

window_duration == 2

\* Duration::from_secs(3600) of AdaptiveRateLimiter::cleanup_expired, in ticks
expire_duration == 3

MaxClock == 4

MaxViolations == 2

Identifiers == {"a", "b"}

\* the retain of allow with the bound of the window included
in_window_inclusive(now, time) == now - time <= window_duration

\* |&time| now.duration_since(time) < self.window_duration
in_window(now, time) == now - time < window_duration

retain(times, now) == SelectSeq(times, LAMBDA time : in_window(now, time))

\* no entry of suspicious_ips
NoActivity == [some |-> FALSE, violations |-> 0, last_violation |-> 0, reduced_limit |-> 0]

SuspiciousActivity(violations, last_violation, reduced_limit) ==
    [some |-> TRUE, violations |-> violations, last_violation |-> last_violation,
     reduced_limit |-> reduced_limit]

\* RateLimiter::allow on the map of the limiter: the new map and the answer
RateLimiter_allow(requests, identifier, now) ==
    IF Len(retain(requests[identifier], now)) < max_requests
    THEN [requests |-> [requests EXCEPT ![identifier] = Append(retain(@, now), now)],
          allowed |-> TRUE]
    ELSE [requests |-> [requests EXCEPT ![identifier] = retain(@, now)], allowed |-> FALSE]

Record(allowed, identifier, answer, now) ==
    IF answer THEN [allowed EXCEPT ![identifier] = Append(@, now)] ELSE allowed

LibRest == <<srvVars, shVars, cmdVars, polVars, sanVars, codecVars, mbVars, amVars, cfVars>>

LibRestAm == <<srvVars, shVars, cmdVars, polVars, sanVars, codecVars, mbVars, rlVars, smVars>>

LibRestCf == LibRestAm

\* time passes
Tick ==
    /\ rl.clock < MaxClock
    /\ rl' = [rl EXCEPT !.clock = rl.clock + 1]
    /\ UNCHANGED <<LibRest, smVars>>

\* RateLimiter::allow(identifier)
Allow(identifier) ==
    /\ \E r \in { RateLimiter_allow(rl.requests, identifier, rl.clock) } :
           rl' = [rl EXCEPT !.requests = r.requests,
                            !.allowed = Record(rl.allowed, identifier, r.allowed, rl.clock),
                            !.last = [op |-> "allow", id |-> identifier, out |-> r.allowed]]
    /\ UNCHANGED <<LibRest, smVars>>

\* RateLimiter::cleanup_expired (an identifier without requests is an empty entry)
CleanupExpired ==
    /\ rl' = [rl EXCEPT !.requests = [id \in Identifiers |-> retain(rl.requests[id], rl.clock)]]
    /\ UNCHANGED <<LibRest, smVars>>

\* AdaptiveRateLimiter::record_violation
record_violation(activity, now) ==
    IF ~activity.some
    THEN SuspiciousActivity(1, now, max_requests \div 2)
    ELSE SuspiciousActivity(
             activity.violations + 1, now,
             IF activity.violations + 1 > 5
             THEN (IF activity.reduced_limit - 1 < 1 THEN 1 ELSE activity.reduced_limit - 1)
             ELSE activity.reduced_limit)

\* AdaptiveRateLimiter::allow(identifier): the limiter built with the
\* effective limit is dropped unused; the base limiter answers
AdaptiveAllow(identifier) ==
    /\ \E r \in { RateLimiter_allow(rl.requests, identifier, rl.clock) } :
           /\ r.allowed \/ rl.suspicious[identifier].violations < MaxViolations
           /\ rl' = [rl EXCEPT
                  !.requests = r.requests,
                  !.allowed = Record(rl.allowed, identifier, r.allowed, rl.clock),
                  !.suspicious = IF r.allowed THEN @
                                 ELSE [@ EXCEPT ![identifier] = record_violation(@, rl.clock)],
                  !.last = [op |-> "allow", id |-> identifier, out |-> r.allowed]]
    /\ UNCHANGED <<LibRest, smVars>>

\* AdaptiveRateLimiter::mark_suspicious(identifier)
MarkSuspicious(identifier) ==
    /\ rl' = [rl EXCEPT !.suspicious[identifier] = SuspiciousActivity(10, rl.clock, 1)]
    /\ UNCHANGED <<LibRest, smVars>>

\* AdaptiveRateLimiter::cleanup_expired
AdaptiveCleanupExpired ==
    /\ rl' = [rl EXCEPT
           !.requests = [id \in Identifiers |-> retain(rl.requests[id], rl.clock)],
           !.suspicious = [id \in Identifiers |->
               IF rl.suspicious[id].some
                  /\ rl.clock - rl.suspicious[id].last_violation < expire_duration
               THEN rl.suspicious[id] ELSE NoActivity]]
    /\ UNCHANGED <<LibRest, smVars>>

RlIdle ==
    rl = [clock |-> 0,
          requests |-> [id \in Identifiers |-> <<>>],
          suspicious |-> [id \in Identifiers |-> NoActivity],
          allowed |-> [id \in Identifiers |-> <<>>],
          last |-> [op |-> "none", id |-> "", out |-> TRUE]]

(***************************************************************************)
(* SecurityManager.  SystemTime::now() is the clock of the run, in ticks   *)
(* of half an hour; the window of the manager's RateLimiter (60 s) is      *)
(* shorter than a tick, so its map holds the requests of the current tick. *)
(* events is the record, kept beside the manager, of the failures and the  *)
(* successes reported to it, in the order of the calls.                    *)
(***************************************************************************)
\* let max_attempts = 5 of record_auth_failure
max_attempts == 5

\* the SecurityConfig of test_security_manager
SecurityConfig_max_failed_attempts == 3

\* Duration::from_secs(3600) of the retain of record_auth_failure, in ticks
attempts_window == 2

\* Duration::from_secs(3600), the block_duration of record_auth_failure, in ticks
block_duration == 2

\* RateLimiter::new(100, 60 s), scaled
ip_max_requests == 1

MaxSmClock == 3

MaxEvents == 6

Ips == {"127.0.0.1"}

\* time passes; the requests of the rate limiter leave its window
SmTick ==
    /\ sm.clock < MaxSmClock
    /\ sm' = [sm EXCEPT !.clock = sm.clock + 1,
                        !.requests = [ip \in Ips |-> 0]]
    /\ UNCHANGED <<LibRest, rlVars>>

\* SecurityManager::check_ip_allowed(ip)
check_ip_allowed(ip) ==
    IF sm.blocked_ips[ip].some /\ sm.clock < sm.blocked_ips[ip].until
    THEN "IP blocked"
    ELSE IF ~(sm.requests[ip] < ip_max_requests) THEN "Rate limit exceeded"
    ELSE "Ok"

CheckIpAllowed(ip) ==
    /\ sm' = [sm EXCEPT
           !.requests[ip] = IF check_ip_allowed(ip) = "Ok" THEN @ + 1 ELSE @,
           !.last = [op |-> "check_ip_allowed", ip |-> ip, out |-> check_ip_allowed(ip)]]
    /\ UNCHANGED <<LibRest, rlVars>>

\* the attempts kept by record_auth_failure: the new one and those of the last hour
kept_attempts(times, now) ==
    SelectSeq(Append(times, now), LAMBDA time : now - time < attempts_window)

\* the threshold taken from the SecurityConfig
too_many_by_config(times) == Len(times) >= sm.config.max_failed_attempts

\* if attempts.len() >= max_attempts
too_many(times) == Len(times) >= max_attempts

\* SecurityManager::record_auth_failure(ip)
RecordAuthFailure(ip) ==
    /\ Len(sm.events[ip]) < MaxEvents
    /\ \E times \in { kept_attempts(sm.failed_attempts[ip], sm.clock) } :
           sm' = [sm EXCEPT
               !.failed_attempts[ip] = times,
               !.blocked_ips[ip] = IF too_many(times)
                                   THEN [some |-> TRUE, until |-> sm.clock + block_duration]
                                   ELSE @,
               !.events[ip] = Append(@, [kind |-> "failure", time |-> sm.clock]),
               !.last = [op |-> "record_auth_failure", ip |-> ip, out |-> "Ok"]]
    /\ UNCHANGED <<LibRest, rlVars>>

\* SecurityManager::record_successful_auth(ip)
RecordSuccessfulAuth(ip) ==
    /\ Len(sm.events[ip]) < MaxEvents
    /\ sm' = [sm EXCEPT
           !.failed_attempts[ip] = <<>>,
           !.events[ip] = Append(@, [kind |-> "success", time |-> sm.clock]),
           !.last = [op |-> "record_successful_auth", ip |-> ip, out |-> "Ok"]]
    /\ UNCHANGED <<LibRest, rlVars>>

SmIdle ==
    sm = [config |-> [max_failed_attempts |-> SecurityConfig_max_failed_attempts],
          clock |-> 0,
          requests |-> [ip \in Ips |-> 0],
          blocked_ips |-> [ip \in Ips |-> [some |-> FALSE, until |-> 0]],
          failed_attempts |-> [ip \in Ips |-> <<>>],
          events |-> [ip \in Ips |-> <<>>],
          last |-> [op |-> "none", ip |-> "", out |-> "Ok"]]

(***************************************************************************)
(* AuthManager: the token table (SpecAuth).  SystemTime::now() is the      *)
(* clock of the run; a token id is the number of the create_token call     *)
(* that made it (Uuid::new_v4 is fresh each time), 0 for the default       *)
(* token made by AuthManager::new.                                         *)
(***************************************************************************)
\* the clock stops here
MaxAmClock == 2
\* create_token calls of a run
MaxTokens == 2

AmTokenStrings == {"default", "t1"}

\* Option<SystemTime>
NoExpiry == [some |-> FALSE, at |-> 0]

ExpiresAt(t) == [some |-> TRUE, at |-> t]

ExpiryChoices == {NoExpiry, ExpiresAt(0), ExpiresAt(1)}

\* an entry of AuthManager.tokens: the key and the fields validate_token reads
TokenInfo(id, token, expires_at) ==
    [id |-> id, token_hash |-> hash_token(token), expires_at |-> expires_at]

\* if let Some(expires_at) = .. { if SystemTime::now() > expires_at
TokenExpired(ti, now) == ti.expires_at.some /\ now > ti.expires_at.at

AmResult(op, token, id, ok, err) ==
    [op |-> op, token |-> token, id |-> id, ok |-> ok, err |-> err]

AmTick ==
    /\ am.clock < MaxAmClock
    /\ am' = [am EXCEPT !.clock = @ + 1]
    /\ UNCHANGED <<LibRestAm, cfVars>>

\* AuthManager::create_token: a new entry under a fresh id, whatever the table holds
CreateToken(token, expires_at) ==
    /\ am.created < MaxTokens
    /\ am' = [am EXCEPT
         !.created = @ + 1,
         !.tokens = @ \cup {TokenInfo(am.created + 1, token, expires_at)},
         !.last = AmResult("create_token", token, am.created + 1, TRUE, "")]
    /\ UNCHANGED <<LibRestAm, cfVars>>

\* AuthManager::revoke_token
RevokeToken(id) ==
    /\ IF \E ti \in am.tokens : ti.id = id
       THEN am' = [am EXCEPT
              !.tokens = { ti \in @ : ti.id # id },
              !.last = AmResult("revoke_token", "", id, TRUE, "")]
       ELSE am' = [am EXCEPT !.last = AmResult("revoke_token", "", id, FALSE, "ConfigError")]
    /\ UNCHANGED <<LibRestAm, cfVars>>

\* AuthManager::validate_token: the loop over self.tokens.values() returns at
\* the first entry with the token's hash; a HashMap iterates in any order
ValidateToken(token) ==
    /\ IF \A ti \in am.tokens : ti.token_hash # hash_token(token)
       THEN am' = [am EXCEPT
              !.last = AmResult("validate_token", token, 0, FALSE, "AuthenticationFailed")]
       ELSE \E ti \in { e \in am.tokens : e.token_hash = hash_token(token) } :
              am' = [am EXCEPT !.last =
                IF TokenExpired(ti, am.clock)
                THEN AmResult("validate_token", token, 0, FALSE, "AuthenticationFailed")
                ELSE AmResult("validate_token", token, ti.id, TRUE, "")]
    /\ UNCHANGED <<LibRestAm, cfVars>>

\* AuthManager::new with auth_methods ["token"]: the default development token
AmIdle ==
    am = [clock |-> 0, created |-> 0,
          tokens |-> {TokenInfo(0, "default", NoExpiry)},
          last |-> AmResult("none", "", 0, TRUE, "")]

(***************************************************************************)
(* Config: the folder list under add_folder, remove_folder, update_folder  *)
(* (SpecConfig).  A folder is its name and its path.                       *)
(***************************************************************************)
\* folders a Config holds at most in a run
MaxFolders == 3

ConfigNames == {"a", "b"}

\* "/gone" does not exist on the host
ConfigPaths == {"/p", "/q", "/gone"}

Folder(name, fpath) == [name |-> name, path |-> fpath]

FolderInputs == { Folder(name, fpath) : name \in ConfigNames, fpath \in ConfigPaths }

\* FolderConfig::validate: the name is well formed; the path exists, is a
\* directory and can be read
FolderConfig_validate(folder) == folder.name # "" /\ folder.path # "/gone"

\* self.folders.iter().position(|f| f.name == name): 0 for None
RECURSIVE position(_, _)
position(folders, name) ==
    IF folders = <<>> THEN 0
    ELSE IF Head(folders).name = name THEN 1
    ELSE IF position(Tail(folders), name) = 0 THEN 0
    ELSE 1 + position(Tail(folders), name)

\* Vec::remove
remove(folders, index) ==
    SubSeq(folders, 1, index - 1) \o SubSeq(folders, index + 1, Len(folders))

CfResult(op, ok) == [op |-> op, ok |-> ok]

\* Config::add_folder
AddFolder(folder) ==
    /\ Len(cf.folders) < MaxFolders
    /\ IF \/ \E i \in 1..Len(cf.folders) : cf.folders[i].name = folder.name
          \/ \E i \in 1..Len(cf.folders) : cf.folders[i].path = folder.path
          \/ ~FolderConfig_validate(folder)
       THEN cf' = [cf EXCEPT !.last = CfResult("add_folder", FALSE)]
       ELSE cf' = [folders |-> Append(cf.folders, folder),
                   last |-> CfResult("add_folder", TRUE)]
    /\ UNCHANGED <<LibRestCf, amVars>>

\* Config::remove_folder
RemoveFolder(name) ==
    /\ IF position(cf.folders, name) = 0
       THEN cf' = [cf EXCEPT !.last = CfResult("remove_folder", FALSE)]
       ELSE cf' = [folders |-> remove(cf.folders, position(cf.folders, name)),
                   last |-> CfResult("remove_folder", TRUE)]
    /\ UNCHANGED <<LibRestCf, amVars>>

\* Config::update_folder
UpdateFolder(name, updated_folder) ==
    /\ IF position(cf.folders, name) = 0 \/ ~FolderConfig_validate(updated_folder)
       THEN cf' = [cf EXCEPT !.last = CfResult("update_folder", FALSE)]
       ELSE cf' = [folders |-> [cf.folders EXCEPT ![position(cf.folders, name)] = updated_folder],
                   last |-> CfResult("update_folder", TRUE)]
    /\ UNCHANGED <<LibRestCf, amVars>>

CfOf(folders) == [folders |-> folders, last |-> CfResult("none", TRUE)]

\* a Config without folders
CfIdle == cf = CfOf(<<>>)

LibIdle == SanIdle /\ CodecIdle /\ MbIdle /\ RlIdle /\ SmIdle /\ AmIdle /\ CfIdle

\* the server at rest, for the specifications of the other components
SrvIdle == SrvInit /\ cfg.require_authentication

\* one session in Ready, nothing else going on in the server
SrvOneSession == cfg \in CmdConfigs /\ SrvQuiet /\ active = [c \in Conns |-> c = TheSession]

\* the shell at rest
ShIdle == ShInit /\ shRoot = <<"srv", "root">>

\* no command has been received
CmdIdle == platform = "unix" /\ CmdRest

Init == SrvInit /\ ShIdle /\ CmdIdle /\ PolIdle /\ LibIdle

ShellInit == SrvIdle /\ ShInit /\ CmdIdle /\ PolIdle /\ LibIdle

CmdInit == SrvOneSession /\ ShIdle /\ platform \in {"unix", "windows"} /\ CmdRest /\ PolIdle /\ LibIdle

FolderInit ==
    /\ cfg \in { FolderConfig_new(system_aware) : system_aware \in SystemAwareChoices }
    /\ SrvRest /\ ShIdle /\ CmdIdle /\ PolIdle /\ LibIdle

(***************************************************************************)
(* Spec: one connection, every frame a client can send.                    *)
(***************************************************************************)
Next ==
    \/ \E c \in {1} : SrvStep(c)
    \/ \E c \in {1} : SrvEnv(c, WireInputs)
    \/ StopBegin
    \/ StopEnd

Spec == Init /\ [][Next]_vars

(***************************************************************************)
(* SpecServer: NumConns concurrent connections whose clients follow the    *)
(* handshake, may fail authentication or folder binding, and end their     *)
(* session by Disconnect or by closing the stream.                         *)
(***************************************************************************)
ServerWireInputs ==
    { Wire(FSH_MAGIC, 64, m) :
        m \in { Msg("Connect", FSH_VERSION, ""), Msg("Authenticate", "token", "t1"),
                Msg("Authenticate", "token", ""), Msg("FolderBind", "demo", ""),
                Msg("FolderBind", "nope", ""), Msg("Disconnect", "", "") } }
      \cup {EOF}

ServerNext ==
    \/ \E c \in Conns : SrvStep(c)
    \/ \E c \in Conns : SrvEnv(c, ServerWireInputs)
    \/ StopBegin
    \/ StopEnd

SpecServer == Init /\ [][ServerNext]_vars

\* SpecServer with weak fairness on the steps the runtime takes by itself
FairSpecServer ==
    SpecServer /\ (\A c \in Conns : WF_vars(SrvStep(c))) /\ WF_vars(StopEnd)


(***************************************************************************)
(* SpecShell: the shell of one session under cd and validate_path calls.   *)
(***************************************************************************)
SpecShell == ShellInit /\ [][ShNext]_vars

SpecCmd == CmdInit /\ [][CmdNext]_vars

(***************************************************************************)
(* SpecSession: one session in Ready reading up to MaxCmds commands, a     *)
(* builtin or a subprocess each, with Session::close called at any time.   *)
(* FairSpecSession adds weak fairness on the steps of the runtime's tasks  *)
(* and on the read timeout; the frames a client sends, the call of close   *)
(* and the exit of a child are not the runtime's to schedule.              *)
(***************************************************************************)
SessionInit ==
    /\ cfg \in { f \in Configs : f.require_authentication }
    /\ SrvQuiet /\ active = [c \in Conns |-> c = TheSession]
    /\ ShIdle /\ CmdIdle /\ PolIdle /\ LibIdle

SessionNext ==
    \/ RdLock
    \/ RdTimeout
    \/ \E c \in FollowUps, spawnOk \in BOOLEAN, nOut \in {0, 1} :
          RdCommand(c, spawnOk, nOut, 0, 0)
    \/ RdComplete
    \/ RdExit
    \/ CmdClose
    \/ CmdCloseDisconnect
    \/ \E k \in 1..MaxCmds : BuiltinSend(k)
    \/ \E k \in 1..MaxCmds : StdoutLine(k)
    \/ \E k \in 1..MaxCmds : ChildWait(k)
    \/ \E k \in 1..MaxCmds : Forward(k)

SpecSession == SessionInit /\ [][SessionNext]_vars

\* the steps of the task that runs message_loop and, inside it, handle_command
ReaderSteps == RdLock \/ RdComplete \/ RdExit

FairSpecSession ==
    /\ SpecSession
    /\ WF_vars(ReaderSteps)
    /\ WF_vars(RdTimeout)
    /\ WF_vars(CmdCloseDisconnect)
    /\ \A k \in 1..MaxCmds :
          WF_vars(BuiltinSend(k)) /\ WF_vars(StdoutLine(k)) /\ WF_vars(Forward(k))

\* SpecFolder: one FolderConfig from FolderConfig::new through any sequence of
\* builder calls, its policy asked at any point
SpecFolder == FolderInit /\ [][FolderNext]_vars

\* SpecSanitize: one validator, any line of a child sanitized and sent
SanitizeInit ==
    /\ CodecIdle /\ MbIdle /\ RlIdle /\ SmIdle /\ AmIdle /\ CfIdle
    /\ san \in { [root |-> r, output_type |-> "none", line |-> "", data |-> ""] :
                   r \in SanitizeRoots }
    /\ SrvIdle /\ ShIdle /\ CmdIdle /\ PolIdle

SanitizeNext ==
    \E output_type \in {"Stdout", "Stderr"}, line \in ChildLines :
        SanitizeLine(output_type, line)

SpecSanitize == SanitizeInit /\ [][SanitizeNext]_vars

(***************************************************************************)
(* SpecCodec: FshCodec::encode and FshCodec::decode on the messages and    *)
(* the byte strings of the runs.                                           *)
(***************************************************************************)
CodecInit == SrvIdle /\ ShIdle /\ CmdIdle /\ PolIdle /\ LibIdle

CodecNext ==
    \/ \E m \in CodecMessages : Roundtrip(m)
    \/ \E data \in DecodeInputs : Decode(data)

SpecCodec == CodecInit /\ [][CodecNext]_vars

(***************************************************************************)
(* SpecRate: one RateLimiter asked by two identifiers as time passes.      *)
(***************************************************************************)
RateInit == SrvIdle /\ ShIdle /\ CmdIdle /\ PolIdle /\ LibIdle

RateNext ==
    \/ Tick
    \/ \E identifier \in Identifiers : Allow(identifier)
    \/ CleanupExpired

SpecRate == RateInit /\ [][RateNext]_vars

(***************************************************************************)
(* SpecAdaptive: one AdaptiveRateLimiter asked by one identifier.          *)
(***************************************************************************)
AdaptiveInit == SrvIdle /\ ShIdle /\ CmdIdle /\ PolIdle /\ LibIdle

AdaptiveNext ==
    \/ Tick
    \/ \E identifier \in {"a"} : AdaptiveAllow(identifier)
    \/ \E identifier \in {"a"} : MarkSuspicious(identifier)
    \/ AdaptiveCleanupExpired

SpecAdaptive == AdaptiveInit /\ [][AdaptiveNext]_vars

(***************************************************************************)
(* SpecSecurity: one SecurityManager told of the failures and successes of *)
(* an IP and asked whether the IP is allowed, as time passes.              *)
(***************************************************************************)
SecurityInit == SrvIdle /\ ShIdle /\ CmdIdle /\ PolIdle /\ LibIdle

SecurityNext ==
    \/ SmTick
    \/ \E ip \in Ips : CheckIpAllowed(ip)
    \/ \E ip \in Ips : RecordAuthFailure(ip)
    \/ \E ip \in Ips : RecordSuccessfulAuth(ip)

SpecSecurity == SecurityInit /\ [][SecurityNext]_vars

(***************************************************************************)
(* SpecAuth: one AuthManager after AuthManager::new, tokens created,       *)
(* revoked and validated as time passes.                                   *)
(***************************************************************************)
AuthInit == SrvIdle /\ ShIdle /\ CmdIdle /\ PolIdle /\ LibIdle

AuthNext ==
    \/ AmTick
    \/ \E token \in AmTokenStrings, expires_at \in ExpiryChoices : CreateToken(token, expires_at)
    \/ \E id \in 0..MaxTokens : RevokeToken(id)
    \/ \E token \in AmTokenStrings : ValidateToken(token)

SpecAuth == AuthInit /\ [][AuthNext]_vars

(***************************************************************************)
(* SpecConfig: one Config whose folders have distinct names and distinct   *)
(* paths, under any sequence of add_folder, remove_folder, update_folder.  *)
(***************************************************************************)
ConfigInit ==
    /\ SanIdle /\ CodecIdle /\ MbIdle /\ RlIdle /\ SmIdle /\ AmIdle
    /\ cf \in { CfOf(<<>>), CfOf(<<Folder("a", "/p")>>),
                CfOf(<<Folder("a", "/p"), Folder("b", "/q")>>) }
    /\ SrvIdle /\ ShIdle /\ CmdIdle /\ PolIdle

ConfigNext ==
    \/ \E folder \in FolderInputs : AddFolder(folder)
    \/ \E name \in ConfigNames : RemoveFolder(name)
    \/ \E name \in ConfigNames, updated_folder \in FolderInputs : UpdateFolder(name, updated_folder)

SpecConfig == ConfigInit /\ [][ConfigNext]_vars

(***************************************************************************)
(* SpecBuffer: one MessageBuffer fed a stream of junk and frames in chunks *)
(* of every size, with take_messages called at any time.                   *)
(***************************************************************************)
BufferInit ==
    /\ SanIdle /\ CodecIdle /\ RlIdle /\ SmIdle /\ AmIdle /\ CfIdle
    /\ mb \in { NewStream(junk, frames) : junk \in JunkPrefixes, frames \in FrameSeqs }
    /\ SrvIdle /\ ShIdle /\ CmdIdle /\ PolIdle

BufferNext ==
    \/ AddData
    \/ TakeMessages

SpecBuffer == BufferInit /\ [][BufferNext]_vars

(***************************************************************************)
(* Properties of the server.                                               *)
(***************************************************************************)
\* the handler of c or the session of c has terminated
Terminated(c) == phase[c] = "Failed" \/ loop[c] = "ended"

IsProtocolError(f) == f.kind \in {"wrong_message", "bad_magic", "oversize"}

HasFrame(c, t, a) == \E i \in 1..Len(sent[c]) : sent[c][i].t = t /\ sent[c][i].a = a

\* the number of Ping frames at the end of a frame sequence
RECURSIVE TrailingPings(_)
TrailingPings(fs) ==
    IF fs = <<>> \/ fs[Len(fs)].t # "Ping" THEN 0
    ELSE 1 + TrailingPings(SubSeq(fs, 1, Len(fs) - 1))

\* C1: the registry never holds more than max_connections sessions.
C1_BoundedRegistry == Cardinality(sessions) <= max_connections

\* C8: in every phase, a protocol error (wrong message for the phase, bad
\* magic, oversize frame) makes the server write Error{protocol_error} and
\* terminate the connection or session.
C8_ProtocolErrorAnswered ==
    \A c \in Conns :
        IsProtocolError(fault[c]) =>
            HasFrame(c, "Error", "protocol_error") /\ Terminated(c)

\* C9: a registered session whose message loop has ended (Disconnect, stream
\* failure, idle timeout) is eventually removed from the registry.
C9_EndedSessionRemoved ==
    \A c \in Conns : (loop[c] = "ended" /\ c \in sessions) ~> (c \notin sessions)

\* C9, as a state predicate: once the server has no step of its own left to
\* take, no session whose message loop has ended is still registered.
C9_EndedSessionRemovedAtRest ==
    (~ENABLED (\E d \in Conns : SrvStep(d)) /\ ~ENABLED StopEnd) =>
        \A c \in Conns : loop[c] = "ended" => c \notin sessions

\* C10: after one read timeout without inbound traffic one Ping has been
\* sent; after the second consecutive one the session is closed and no
\* further Ping is sent.
C10_IdleClose ==
    \A c \in Conns :
        /\ idle[c] >= 1 => TrailingPings(sent[c]) = 1
        /\ idle[c] >= 2 => ~active[c] /\ loop[c] = "ended"

(***************************************************************************)
(* Properties of the sandboxed shell.                                      *)
(***************************************************************************)
\* the path denotes the folder itself
AtRoot(p) == canonicalize(p).ok /\ canonicalize(p).path = validator_root

\* the working directory is the folder or below it
WdConfined ==
    canonicalize(wd).ok /\ starts_with(canonicalize(wd).path, validator_root)

LastWasCdDotDotAtRoot ==
    /\ shLast.op = "cd"
    /\ shLast.arg = Arg(Rel(<<"..">>))
    /\ AtRoot(shLast.before)

Denial == "Access denied: Cannot navigate above project folder"

\* C3 as stated: after every sequence of cd commands the working directory
\* is the root or below it, and "cd .." at the root leaves it unchanged and
\* returns exit code 1 with a denial message.
C3_CdStated ==
    /\ WdConfined
    /\ LastWasCdDotDotAtRoot =>
         /\ wd = shLast.before
         /\ shLast.err = "" /\ shLast.exit_code = 1 /\ shLast.stderr = Denial

\* C3 as amended: the working directory is always the root or below it;
\* "cd .." at the root leaves it unchanged and returns exit code 1 with the
\* denial message when the root has a parent directory, exit code 0 when the
\* root is the file system root.
C3_CdConfined ==
    /\ WdConfined
    /\ LastWasCdDotDotAtRoot =>
         /\ wd = shLast.before
         /\ shLast.err = ""
         /\ IF parent(shRoot).some
            THEN shLast.exit_code = 1 /\ shLast.stderr = Denial
            ELSE shLast.exit_code = 0

\* "cd .." was denied at the root after the shell had been below it
C3_Witness ==
    /\ LastWasCdDotDotAtRoot
    /\ shLast.exit_code = 1
    /\ shRoot = <<"lnk">>
    /\ wd = <<"srv", "root">>

FullCommand(k) == prepare_shell_command(task[k].command, task[k].args).full_command

\* command k was answered by an Error frame and nothing else
Denied(k) == task[k].kind \in {"refused", "failed"}

\* command k was refused with FshError::PermissionDenied, or for want of the
\* Execute permission
DeniedPermission(k) ==
    \/ task[k].kind = "refused"
    \/ task[k].kind = "failed" /\ task[k].err = "PermissionDenied"

NoSpawn(k) == \A i \in 1..Len(spawned) : spawned[i].k # k

\* C2: CommandComplete is the last frame written for a command: no frame of the
\* same command, an output frame in particular, follows it on the stream.
C2_CompleteIsLast ==
    \A i, j \in 1..Len(stream) :
        (i < j /\ stream[i].t = "CommandComplete") => stream[j].k # stream[i].k

\* C5: a command whose full command string (command and arguments) contains an
\* entry of blocked_commands is denied and no subprocess is spawned for it.
C5_BlockedSubstringDenied ==
    \A k \in 1..Len(task) :
        (\E blocked \in cfg.blocked_commands : Contains(FullCommand(k), blocked))
            => Denied(k) /\ NoSpawn(k)

\* C6: a command whose command string as executed contains "../" or "..\", or
\* is an absolute path, is refused with PermissionDenied and spawns nothing.
C6_TraversalRefused ==
    \A k \in 1..Len(task) :
        (\/ Contains(FullCommand(k), "../")
         \/ Contains(FullCommand(k), "..\\")
         \/ platform = "unix" /\ StartsWith(FullCommand(k), "/"))
            => DeniedPermission(k) /\ NoSpawn(k)

\* C7: a command that reaches validation and matches one of the dangerous
\* patterns is denied, a SuspiciousActivity event is emitted for it, and no
\* subprocess is spawned.
C7_DangerousPatternDenied ==
    \A k \in 1..Len(task) :
        (can_execute /\ ~validate_command(FullCommand(k)).ok)
            => /\ Denied(k)
               /\ NoSpawn(k)
               /\ \E i \in 1..Len(audit) :
                     audit[i].k = k /\ audit[i].event_type = "SuspiciousActivity"

(***************************************************************************)
(* Properties of the handshake (Spec).                                     *)
(***************************************************************************)
\* frame i of connection c is of variant t with result a
IsFrame(c, i, t, a) == sent[c][i].t = t /\ sent[c][i].a = a

\* a frame t/a was written on connection c before frame i
SentBefore(c, i, t, a) == \E j \in 1..(i - 1) : IsFrame(c, j, t, a)

AuthenticateInputs ==
    { w \in WireInputs : read_message(w).ok /\ read_message(w).msg.t = "Authenticate" }

\* what handle_authentication must do with the Authenticate frame w on connection c
AuthenticateAnswered(c, w) ==
    IF validate_authentication(w.msg)
    THEN /\ sent'[c] = Append(sent[c], Msg("AuthResponse", "ok", ""))
         /\ attempts'[c] = attempts[c]
         /\ phase'[c] = "FolderBind"
    ELSE /\ sent'[c] = Append(sent[c], Msg("AuthResponse", "fail", ""))
         /\ attempts'[c] = attempts[c] + 1
         /\ attempts'[c] < max_failed_attempts => phase'[c] = "Authenticate"
         /\ attempts'[c] >= max_failed_attempts =>
               phase'[c] = "Failed" /\ fault'[c] = Fault("auth", "Authenticate")

\* a connection that ran out of attempts has no session
AuthFailedHasNoSession ==
    \A c \in Conns : fault[c].kind = "auth" =>
        /\ c \notin sessions /\ ~active[c] /\ phase[c] = "Failed"
        /\ ~HasFrame(c, "SessionReady", "")
        /\ attempts[c] = max_failed_attempts

\* C12: with authentication required, a rejected Authenticate is answered
\* AuthResponse(success=false) and counts one failed attempt; the connection
\* stays in the authentication phase below max_failed_attempts and ends with
\* AuthenticationFailed, without a session, when the count reaches it; an
\* accepted Authenticate is answered AuthResponse(success=true) and moves the
\* connection to folder binding.
C12_FailedAttemptsCounted ==
    /\ [][\A c \in Conns : \A w \in AuthenticateInputs :
             HandleAuthentication(c, w) => AuthenticateAnswered(c, w)]_vars
    /\ [](AuthFailedHasNoSession)
    /\ [](\A c \in Conns : phase[c] = "Authenticate" =>
             cfg.require_authentication /\ attempts[c] < max_failed_attempts)

\* a connection was rejected once, stayed, and was rejected again and ended
C12_Witness ==
    \E c \in Conns :
        /\ fault[c] = Fault("auth", "Authenticate")
        /\ attempts[c] = max_failed_attempts
        /\ Len(sent[c]) = 1 + max_failed_attempts
        /\ \A i \in 2..Len(sent[c]) : IsFrame(c, i, "AuthResponse", "fail")

\* C13: a token Authenticate is accepted only if the hash of the presented
\* token equals the hash of a registered, unexpired, unrevoked token of the
\* auth subsystem; a non-empty token that is not registered is rejected.
C13_OnlyRegisteredTokenAccepted ==
    [][\A c \in Conns : \A w \in AuthenticateInputs :
          (HandleAuthentication(c, w) /\ phase'[c] = "FolderBind")
              => AuthManager_validate_token(w.msg.b)]_vars

\* the handshake of connection c succeeded: every response was a success
HandshakeSucceeded(c) ==
    /\ HasFrame(c, "ConnectResponse", "ok")
    /\ cfg.require_authentication => HasFrame(c, "AuthResponse", "ok")
    /\ HasFrame(c, "FolderBound", "ok")
    /\ HasFrame(c, "SessionReady", "")
    /\ fault[c].phase \notin {"Connect", "Authenticate", "FolderBind", "CreateSession"}

\* the failures of the handshake
HandshakeFaults ==
    {"version", "wrong_message", "bad_magic", "oversize", "network", "auth", "folder", "timeout"}

\* C14: a session is in the registry only after its handshake succeeded; a
\* handshake failure (version mismatch, wrong message, attempts exhausted,
\* unknown folder, folder validation error, connection timeout) ends the
\* connection and leaves the registry as it was.
C14_RegistryOnlyAfterHandshake ==
    /\ [](\A c \in Conns : c \in sessions => HandshakeSucceeded(c))
    /\ [](\A c \in Conns : phase[c] = "Failed" =>
             /\ fault[c].kind \in HandshakeFaults
             /\ c \notin sessions /\ ~active[c] /\ loop[c] = "none")
    /\ [][\A c \in Conns : (phase[c] # "Failed" /\ phase'[c] = "Failed")
              => sessions' = sessions]_vars
    /\ [][\A c \in Conns : phase[c] = "Failed" =>
              phase'[c] = "Failed" /\ sent'[c] = sent[c]]_vars

\* the handshake failed at its last step, after the client had authenticated
C14_Witness ==
    \E c \in Conns :
        /\ phase[c] = "Failed" /\ fault[c] = Fault("folder", "FolderBind")
        /\ HasFrame(c, "AuthResponse", "ok") /\ HasFrame(c, "FolderBound", "fail")
        /\ c \notin sessions

(***************************************************************************)
(* Properties of the permission gates of the Ready phase (Spec).           *)
(***************************************************************************)
\* the permission bit the request m needs is missing from the folder
LacksPermission(m) ==
    \/ m.t = "Command" /\ "Execute" \notin cfg.permissions
    \/ m.t = "FileRead" /\ "Read" \notin cfg.permissions
    \/ m.t = "FileWrite" /\ ("Write" \notin cfg.permissions \/ cfg.readonly)

\* the structured denial of the request m
DenialOf(m) ==
    CASE m.t = "Command" -> Msg("Error", "permission_denied", "Execute permission denied")
      [] m.t = "FileRead" -> Msg("FileReadResponse", "fail", "Read permission denied")
      [] m.t = "FileWrite" -> Msg("FileWriteResponse", "fail", "Write permission denied")

\* the frames that deserialize to a request behind a permission gate
GatedInputs ==
    { w \in WireInputs :
        read_message(w).ok /\ read_message(w).msg.t \in {"Command", "FileRead", "FileWrite"} }

\* C15: in Ready, a Command without Execute, a FileRead without Read and a
\* FileWrite without Write or on a readonly folder are answered with the
\* structured denial alone (no operation runs, so no other frame), and the
\* session stays as active as it was, its loop back at the top, its
\* registry entry kept.
C15_DenialKeepsSession ==
    [][\A c \in Conns : \A w \in GatedInputs : \A shellOk \in BOOLEAN :
          (LoopMessage(c, w, shellOk) /\ LacksPermission(w.msg)) =>
              /\ sent'[c] = Append(sent[c], DenialOf(w.msg))
              /\ active'[c] = active[c]
              /\ loop'[c] = "top"
              /\ sessions' = sessions /\ phase' = phase]_vars

\* a session on the execute-only folder answered a FileRead with the denial
C15_Witness ==
    \E c \in Conns :
        /\ "Read" \notin cfg.permissions
        /\ HasFrame(c, "FileReadResponse", "fail")
        /\ active[c] /\ loop[c] = "top" /\ c \in sessions

\* C16: on a folder without Read a FileList is answered
\* FileListResponse(success=false) and no directory is read, so no listing
\* is ever sent.
C16_FileListGatedByRead ==
    \A c \in Conns :
        "Read" \notin cfg.permissions => ~HasFrame(c, "FileListResponse", "ok")

(***************************************************************************)
(* Properties of FolderConfig (SpecFolder).                                *)
(***************************************************************************)
\* the folder the last answers were given for
AskedFolder == with_blocked_commands(cfg, policy.blocked)

\* C17: whatever builders were called, in whatever order, a readonly folder
\* cannot write: readonly = true implies can_write() = false.
C17_ReadonlyCannotWrite ==
    /\ cfg.readonly => ~can_write
    /\ (policy.asked /\ cfg.readonly) => ~policy.can_write

\* with_readonly(true) and then with_permissions([.., Write]): the list holds
\* Write, the folder is readonly, can_write() was called
C17_Witness ==
    /\ cfg.readonly /\ "Write" \in cfg.permissions
    /\ policy.asked /\ ~policy.can_write

\* the decision of the command policy, step by step
BlockedStep(f, C) == \E B \in f.blocked_commands : Contains(C, B)

SystemAwareStep(f, C) ==
    f.system_aware_commands.some /\ \E S \in f.system_aware_commands.cmds : Contains(C, S)

AllowAllStep(f) == "*" \in f.allowed_commands \/ f.allowed_commands = {}

AllowListStep(f, C) ==
    \E A \in f.allowed_commands :
        StartsWith(C, A) \/ Contains(C, "/" \o A) \/ Contains(C, "\\" \o A)

FourStepDecision(f, C) ==
    CASE BlockedStep(f, C) -> FALSE
      [] ~BlockedStep(f, C) /\ SystemAwareStep(f, C) -> TRUE
      [] ~BlockedStep(f, C) /\ ~SystemAwareStep(f, C) /\ AllowAllStep(f) -> TRUE
      [] OTHER -> AllowListStep(f, C)

\* C18: is_command_allowed(C) is the four-step decision: deny on a blocked
\* substring; else allow on a system-aware substring; else allow when the
\* allow-list holds "*" or is empty; else allow iff C starts with an allowed
\* entry A or contains "/A" or "\A".
C18_FourStepDecision ==
    /\ \A C \in PolicyCommands :
          FolderConfig_is_command_allowed(cfg, C) = FourStepDecision(cfg, C)
    /\ policy.asked => policy.allowed = FourStepDecision(AskedFolder, policy.command)

\* the fourth step decided, by the backslash rule
C18_Witness ==
    /\ policy.asked /\ policy.allowed /\ policy.command = "C:\\bin\\ls"
    /\ policy.blocked = cfg.blocked_commands
    /\ ~BlockedStep(cfg, policy.command) /\ ~SystemAwareStep(cfg, policy.command)
    /\ ~AllowAllStep(cfg)

\* the strings added to a block-list
AddedBlocked == {"rm", "su", "ls", "git", "x"}

\* C19: a command the policy denies is still denied after any string is
\* added to blocked_commands, for FolderConfig::is_command_allowed and for
\* SandboxConfig::is_command_allowed.
C19_BlockingIsMonotone ==
    /\ \A b \in AddedBlocked : \A C \in PolicyCommands :
          /\ ~FolderConfig_is_command_allowed(cfg, C) =>
                ~FolderConfig_is_command_allowed(
                    with_blocked_commands(cfg, cfg.blocked_commands \cup {b}), C)
          /\ ~SandboxConfig_allows(cfg, C) =>
                ~SandboxConfig_allows(
                    with_blocked_commands(cfg, cfg.blocked_commands \cup {b}), C)
    /\ (policy.asked /\ policy.blocked \subseteq cfg.blocked_commands) =>
          /\ ~policy.allowed => ~FolderConfig_is_command_allowed(cfg, policy.command)
          /\ ~policy.sandbox_allowed => ~SandboxConfig_allows(cfg, policy.command)

\* a command was denied by the allow-list under an empty block-list, and the
\* block-list has grown since
C19_Witness ==
    /\ policy.asked /\ ~policy.allowed /\ ~policy.sandbox_allowed
    /\ policy.blocked = {} /\ cfg.blocked_commands = {"rm", "su"}
    /\ ~BlockedStep(cfg, policy.command)

(***************************************************************************)
(* Properties of the environment of a subprocess (SpecCmd).                *)
(***************************************************************************)
\* the host environment, the configured variables laid over it, the working
\* directory put in front of PATH
InheritedEnvironment(working_directory) ==
    Overlay(Overlay(HostEnvironment, SandboxEnvironmentVars),
            { <<"PATH", display(working_directory) \o ";/usr/bin">> })

\* C20: a subprocess gets the inherited host environment (the folder's
\* environment_vars laid over it, the working directory in front of PATH)
\* iff an entry of the folder's system_aware_commands is a substring of the
\* command; every other subprocess gets only the folder's environment_vars,
\* FSH_ROOT and FSH_MODE=restricted.
C20_EnvironmentScoped ==
    \A i \in 1..Len(spawned) :
        IF FolderConfig_is_system_aware_command(cfg, spawned[i].command)
        THEN spawned[i].env = InheritedEnvironment(spawned[i].current_dir)
        ELSE spawned[i].env = SandboxEnvironmentVars

(***************************************************************************)
(* Properties of the output sanitizer (SpecSanitize).                      *)
(***************************************************************************)
\* C21: the data of the CommandOutput emitted for a line read from a child's
\* stdout or stderr never contains the root path string.
C21_NoRootInOutput ==
    san.output_type # "none" => ~Contains(san.data, san.root)

(***************************************************************************)
(* C22: for every message m, decode(encode(m)) is m, and encode(m) is the  *)
(* four magic bytes 'F','S','H',0x01, then the length of the payload as a  *)
(* big-endian u32, then exactly that many bytes of payload.                *)
(***************************************************************************)
C22_RoundtripFraming ==
    codec.op = "roundtrip" =>
        /\ codec.out.ok /\ codec.out.msg = codec.msg
        /\ Len(codec.data) >= 8
        /\ SubSeq(codec.data, 1, 4) = <<70, 83, 72, 1>>
        /\ codec.data[5] * 16777216 + codec.data[6] * 65536 + codec.data[7] * 256 + codec.data[8]
             = Len(codec.data) - 8
        /\ SubSeq(codec.data, 9, Len(codec.data)) = serialize(codec.msg)

C22_Witness ==
    /\ codec.op = "roundtrip"
    /\ codec.msg = AuthResponseMessage(FALSE, SomeString(<<110, 111, 33>>))
    /\ Len(codec.data) = 25

(***************************************************************************)
(* C23: when junk followed by one valid frame has been fed to the          *)
(* MessageBuffer, in chunks of any sizes, the buffer has yielded the       *)
(* message of the frame, and at no time has it yielded anything else.      *)
(***************************************************************************)
C23_ResyncYieldsFrame ==
    Len(mb.frames) = 1 =>
        /\ mb.taken \o mb.messages \in {<<>>, mb.frames}
        /\ mb.fed = Len(StreamBytes(mb.junk, mb.frames)) => mb.taken \o mb.messages = mb.frames

(***************************************************************************)
(* C24: for a stream of valid frames split into chunks in any way, what    *)
(* the calls of take_messages return, one after the other, together with   *)
(* what the buffer still holds parsed, is at every moment the first frames *)
(* of the stream, in order and once each; only frames whose bytes have     *)
(* all been fed are among them; once every byte is fed it is the whole     *)
(* sequence.                                                               *)
(***************************************************************************)
C24_ChunkingYieldsFramesInOrder ==
    mb.junk = <<>> =>
        /\ Len(mb.taken \o mb.messages) <= Len(mb.frames)
        /\ mb.taken \o mb.messages = SubSeq(mb.frames, 1, Len(mb.taken \o mb.messages))
        /\ Len(encode_all(mb.taken \o mb.messages)) <= mb.fed
        /\ mb.fed = Len(StreamBytes(mb.junk, mb.frames)) => mb.taken \o mb.messages = mb.frames

C24_Witness ==
    /\ mb.junk = <<>>
    /\ mb.frames = <<Ping, Ping>>
    /\ mb.taken = <<Ping>>
    /\ mb.messages = <<>>
    /\ mb.buffer = <<70, 83, 72, 1, 0>>

(***************************************************************************)
(* C25: the MessageBuffer never waits for the payload of a frame whose LEN *)
(* field exceeds 10 MiB: after add_data returns, its buffer does not start *)
(* with the magic followed by such a LEN.                                  *)
(***************************************************************************)
C25_OversizeLenRejected ==
    ~ /\ Len(mb.buffer) >= 8
      /\ SubSeq(mb.buffer, 1, 4) = FSH_MAGIC
      /\ mb.buffer[5] * 16777216 + mb.buffer[6] * 65536 + mb.buffer[7] * 256 + mb.buffer[8]
           > 10 * 1024 * 1024

AllowedWithin(identifier, from, to) ==
    Len(SelectSeq(rl.allowed[identifier], LAMBDA time : from < time /\ time <= to))

(***************************************************************************)
(* C26: allow(id) answers true exactly when fewer than max_requests        *)
(* requests of id were allowed less than window_duration ago (the others   *)
(* and the denied ones do not count); so in every span of window_duration  *)
(* at most max_requests requests of an id are allowed.                     *)
(***************************************************************************)
C26_SlidingWindow ==
    /\ [][\A id \in Identifiers :
            Allow(id) =>
                rl'.last.out = (AllowedWithin(id, rl.clock - window_duration, rl.clock)
                                  < max_requests)]_vars
    /\ [](\A id \in Identifiers : \A to \in 0..MaxClock :
            AllowedWithin(id, to - window_duration, to) <= max_requests)

\* "a" was at its limit, was denied or not, and is allowed again after the
\* window has passed, while "b" was allowed in between
C26_Witness ==
    /\ rl.last = [op |-> "allow", id |-> "a", out |-> TRUE]
    /\ Len(rl.allowed["a"]) > max_requests
    /\ rl.allowed["b"] # <<>>
    /\ rl.suspicious["a"] = NoActivity

(***************************************************************************)
(* C27: an identifier with an entry in suspicious_ips has been allowed, in *)
(* the window_duration up to now, at most its reduced limit of requests    *)
(* since the entry was made.                                               *)
(***************************************************************************)
C27_ReducedLimitApplies ==
    \A id \in Identifiers :
        rl.suspicious[id].some =>
            Len(SelectSeq(rl.allowed[id],
                          LAMBDA time : /\ rl.clock - time < window_duration
                                        /\ time > rl.suspicious[id].last_violation))
              <= rl.suspicious[id].reduced_limit

\* the failures reported up to the i-th event and less than an hour before it
FailuresWithinHour(e, i) ==
    { j \in 1..i : e[j].kind = "failure" /\ e[i].time - e[j].time < attempts_window }

\* those of them with no success reported between them and the i-th event
FailuresSinceSuccess(e, i) ==
    { j \in FailuresWithinHour(e, i) : \A k \in j..i : e[k].kind = "failure" }

\* a fifth failure within an hour was reported less than an hour ago
FiveFailuresWithinHour(e, now) ==
    \E i \in 1..Len(e) :
        /\ e[i].kind = "failure" /\ now - e[i].time < block_duration
        /\ Cardinality(FailuresWithinHour(e, i)) >= 5

\* the same, counting the failures since the last success
FiveFailuresInARow(e, now) ==
    \E i \in 1..Len(e) :
        /\ e[i].kind = "failure" /\ now - e[i].time < block_duration
        /\ Cardinality(FailuresSinceSuccess(e, i)) >= 5

C29_ConfiguredThresholdBlocks ==
    [][\A ip \in Ips :
         ( /\ CheckIpAllowed(ip)
           /\ Len(sm.events[ip]) >= sm.config.max_failed_attempts
           /\ \A k \in (Len(sm.events[ip]) - sm.config.max_failed_attempts + 1)..Len(sm.events[ip]) :
                  sm.events[ip][k] = [kind |-> "failure", time |-> sm.clock] )
         => sm'.last.out # "Ok"]_vars

(***************************************************************************)
(* C30: once FshServer::stop has returned the registry is empty: no        *)
(* handshake that was in progress when stop was called has inserted a      *)
(* session.                                                                *)
(***************************************************************************)
C30_RegistryEmptyAfterStop == stopPc = "done" => sessions = {}

(***************************************************************************)
(* C34: validate_path of a relative name whose leaf does not exist while   *)
(* its parent (the root) does returns Ok with the canonical parent joined  *)
(* with the leaf.                                                          *)
(***************************************************************************)
C34_MissingLeafAccepted ==
    ( /\ shLast.op = "validate_path"
      /\ shLast.arg = Arg(Rel(<<"missing">>))
      /\ validator_root \o <<"missing">> \notin FsDirs \cup FsFiles \cup FsLinks
      /\ validator_root \in FsDirs )
    => ( /\ shLast.err = ""
         /\ shLast.path = validator_root \o <<"missing">> )

(***************************************************************************)
(* C33: a command denied by the folder's command policy is answered by an  *)
(* Error of type "permission_denied", or by a Stderr CommandOutput         *)
(* followed by CommandComplete with exit code -1, and the reader is back   *)
(* in its loop.                                                            *)
(***************************************************************************)
PolicyDenied(k) ==
    /\ can_execute
    /\ validate_command_path(task[k].command).ok
    /\ ~SandboxConfig_is_command_allowed(task[k].command)

C33_PolicyDenialReported ==
    \A k \in 1..Len(task) :
        PolicyDenied(k) =>
            /\ \/ \E i \in 1..Len(stream) :
                     stream[i] = Frame("Error", k, "permission_denied", 0)
               \/ \E i, j \in 1..Len(stream) :
                     /\ i < j
                     /\ stream[i] = Frame("CommandOutput", k, "Stderr", 0)
                     /\ stream[j] = Frame("CommandComplete", k, "", -1)
            /\ (k = ncmd => rd \in {"top", "reading"})

(***************************************************************************)
(* C36: the decision the sandbox of a session applies to a command         *)
(* (SandboxConfig::is_command_allowed) equals the decision of the bound    *)
(* folder's policy (FolderConfig::is_command_allowed), for every command   *)
(* and every folder configuration.                                         *)
(***************************************************************************)
C36_SandboxAppliesFolderPolicy ==
    /\ \A C \in PolicyCommands :
          SandboxConfig_is_command_allowed(C) = FolderConfig_is_command_allowed(cfg, C)
    /\ policy.asked => policy.sandbox_allowed = policy.allowed

(***************************************************************************)
(* C32: a Command, FileList, FileRead or FileWrite read in Ready whose     *)
(* session_id is not the id of the session that owns the stream is fatal:  *)
(* no frame answers it and the message loop ends.                          *)
(***************************************************************************)
CarriesSessionId(m) == m.t \in {"Command", "FileList", "FileRead", "FileWrite"}

C32_SessionIdMismatchFatal ==
    [][\A c \in Conns : \A w \in WireInputs : \A shellOk \in BOOLEAN :
         ( /\ LoopMessage(c, w, shellOk)
           /\ CarriesSessionId(read_message(w).msg)
           /\ read_message(w).msg.b # "own" )
         => ( /\ loop'[c] = "ended"
              /\ ~active'[c]
              /\ \A i \in (Len(sent[c]) + 1)..Len(sent'[c]) :
                    sent'[c][i].t \notin {"CommandComplete", "FileListResponse"} )]_vars

(***************************************************************************)
(* The repository's client (FshClient) reading the frames of a connection. *)
(***************************************************************************)
\* the frames written on a connection after its FolderBound(success)
RECURSIVE AfterFolderBound(_)
AfterFolderBound(frames) ==
    IF frames = <<>> THEN <<>>
    ELSE IF Head(frames) = Msg("FolderBound", "ok", "") THEN Tail(frames)
    ELSE AfterFolderBound(Tail(frames))

\* FshClient::wait_for_session_ready on the frames it receives: returned is
\* FALSE while it awaits a frame; session_id is whether self.session_id is Some
wait_for_session_ready(frames) ==
    IF frames = <<>>
    THEN [returned |-> FALSE, ok |-> FALSE, err |-> "", session_id |-> FALSE]
    ELSE IF frames[1].t = "SessionStart"
    THEN IF Len(frames) < 2
         THEN [returned |-> FALSE, ok |-> FALSE, err |-> "", session_id |-> TRUE]
         ELSE IF frames[2].t = "SessionReady"
         THEN [returned |-> TRUE, ok |-> TRUE, err |-> "", session_id |-> TRUE]
         ELSE [returned |-> TRUE, ok |-> FALSE, err |-> "Expected SessionReady message",
               session_id |-> TRUE]
    ELSE [returned |-> TRUE, ok |-> FALSE, err |-> "Expected SessionStart message",
          session_id |-> FALSE]

(***************************************************************************)
(* C40: once the server has created the session of a connection, the       *)
(* client's wait_for_session_ready, run on the frames sent after           *)
(* FolderBound(success), returns Ok and the client holds a session id.     *)
(***************************************************************************)
C40_ClientAcceptsHandshake ==
    \A c \in Conns :
        phase[c] \in {"Insert", "Done"} =>
            /\ wait_for_session_ready(AfterFolderBound(sent[c])).ok
            /\ wait_for_session_ready(AfterFolderBound(sent[c])).session_id

(***************************************************************************)
(* C35: validate_token(t) succeeds iff some entry of the token table has   *)
(* the hash of t and is not expired, and fails with AuthenticationFailed   *)
(* otherwise (so after create_token(t) and revoke_token of its id, with no *)
(* other entry for t); revoke_token removes the entry of a known id, and   *)
(* for an unknown id is an error that leaves the table unchanged.          *)
(***************************************************************************)
HasValidEntry(token) ==
    \E ti \in am.tokens : ti.token_hash = hash_token(token) /\ ~TokenExpired(ti, am.clock)

C35_TokenLifecycle ==
    [][ /\ \A token \in AmTokenStrings :
             ValidateToken(token) =>
                 /\ am'.last.ok <=> HasValidEntry(token)
                 /\ ~am'.last.ok => am'.last.err = "AuthenticationFailed"
        /\ \A id \in 0..MaxTokens :
             RevokeToken(id) =>
                 IF \E ti \in am.tokens : ti.id = id
                 THEN am'.last.ok /\ am'.tokens = { ti \in am.tokens : ti.id # id }
                 ELSE ~am'.last.ok /\ am'.tokens = am.tokens ]_vars

(***************************************************************************)
(* C38: the folders of a Config have pairwise distinct names and pairwise  *)
(* distinct paths after any sequence of add_folder, remove_folder and      *)
(* update_folder calls.                                                    *)
(***************************************************************************)
C38_FoldersStayDistinct ==
    \A i, j \in 1..Len(cf.folders) :
        i # j => /\ cf.folders[i].name # cf.folders[j].name
                 /\ cf.folders[i].path # cf.folders[j].path

(***************************************************************************)
(* C39: once Session::close has been called, the call returns and the      *)
(* message loop of the session exits, under fair scheduling of the tasks   *)
(* and a read timeout that fires.                                          *)
(***************************************************************************)
C39_CloseEndsLoop ==
    (closePc[TheSession] # "none") ~> (closePc[TheSession] = "done" /\ rd = "ended")

(***************************************************************************)
(* C37: at most one Command is in execution: whenever the reader is at the *)
(* top of its loop, in a read or has left the loop, every command received *)
(* so far has had its CommandComplete or Error frame written; so has every *)
(* command but the current one at any time.                                *)
(***************************************************************************)
Answered(k) ==
    \E i \in 1..Len(stream) :
        stream[i].k = k /\ stream[i].t \in {"CommandComplete", "Error"}

C37_OneCommandAtATime ==
    /\ \A k \in 1..ncmd : k < ncmd => Answered(k)
    /\ rd \in {"top", "reading", "ended"} => \A k \in 1..ncmd : Answered(k)

\* a second command is in execution after a first, a subprocess, was completed
C37_Witness ==
    /\ ncmd = 2 /\ rd = "await"
    /\ task[1].kind = "external" /\ task[2].kind = "external"
    /\ Answered(1) /\ ~Answered(2)

(***************************************************************************)
(* C31: when Session::close is called while a command of the session has a *)
(* running child, the child is killed: it ends without an exit code, so    *)
(* the CommandComplete of the command carries exit code -1.                *)
(***************************************************************************)
HasRunningChild(k) == task[k].kind = "external" /\ ~task[k].waited

C31_CloseKillsChild ==
    [][CmdClose =>
         \A k \in 1..Len(task) : HasRunningChild(k) => task'[k].exit_code = -1]_vars

====
